---- MODULE Spec2Model ----
(***************************************************************************)
(* Stock-M dataflow: the sliding-window RateLimiter (dataflow/utils.py),   *)
(* the fetcher methods that draw permits from it, and the fan-out/fan-in   *)
(* composite requests of DataManager (dataflow/data_manager.py).           *)
(*                                                                         *)
(* Time.  time.time() is unbounded, and acquire() reads a timestamp only   *)
(* through the difference now - req_time.  The model therefore keeps every *)
(* timestamp relative to the current clock reading: the reading is Now,    *)
(* the origin, and one tick of the clock (Tick) moves every recorded       *)
(* timestamp one unit into the past and every pending timer one unit       *)
(* closer.  A timestamp older than the window is kept at Oldest: acquire() *)
(* treats all such timestamps alike (it prunes them).                      *)
(*                                                                         *)
(* Scheduling.  asyncio runs one coroutine at a time and switches only at  *)
(* an await that suspends: asyncio.sleep in acquire() and in               *)
(* async_request, and asyncio.gather.  The tushare calls are synchronous.  *)
(* An action is one such uninterrupted run of one coroutine.  Tasks take    *)
(* their first step in the order the gather created them; after a sleep    *)
(* they resume in any order.                                               *)
(*                                                                         *)
(* Values.  A frame is known by the task that fetched it and by whether it *)
(* has rows; what get_daily_data does to the rows of a frame (cleaning,    *)
(* sorting, the technical indicators) is not followed.                     *)
(***************************************************************************)
EXTENDS Integers, Sequences, FiniteSets

\* RateLimiter(max_requests, time_window): the configuration checked.
MaxRequests == 2
TimeWindow == 2

\* N + 1 concurrent callers of acquire().
NumCallers == MaxRequests + 1
Callers == 1..NumCallers

\* now = time.time(): the origin of the relative time scale.
Now == 0
\* Every timestamp at least this old is recorded as this old.
Oldest == Now - (TimeWindow + 1)

\* config.py: MAX_RETRIES / async_request(max_retries=3)
MaxRetries == 3

\* How many of the seven statement fetches of get_all_financial_data run.
NumStatements == 2
\* How many sleeps of one acquire() call are counted.
MaxSleeps == 2
\* The longest frame handed to an indicator function, and its highest close.
MaxLen == 3
\* The most dots in a stock code handed to validate_stock_code.
MaxDots == 2

VARIABLES
    requests,       \* tushare_limiter.requests: granted timestamps, oldest first
    av_requests,    \* alpha_vantage_limiter.requests
    granted,        \* history: every grant of tushare_limiter not older than the window
    issued,         \* history: every tushare upstream call not older than the window
    cpc,            \* caller -> "idle" | "acquire" | "pruned" | "append" | "sleep" | "returned"
    ctimer,         \* caller -> time left of its asyncio.sleep
    now,            \* caller -> the local `now` of its acquire() frame
    appends,        \* caller -> timestamps its current acquire() call has appended
    retries,        \* caller -> times its current acquire() call has slept, up to MaxSleeps
    op,             \* the operation under way: "acquire" | "comprehensive" | "overview" | "methods"
    tushare_enabled,\* DATA_SOURCES['tushare']['enabled']
    ts_code_valid,  \* validate_stock_code(ts_code, 'cn')
    news_api_key,   \* bool(NEWS_API_KEY)
    max_retries,    \* the max_retries argument of async_request
    dispatch,       \* a dispatcher call: [fn, selector, pc, invoked]
    validation,     \* a validate_stock_code call: [stock_code, market, returned]
    include,        \* label -> its include_* flag
    task,           \* task -> [pc, timer, stage, attempt, first, val, err]
    calls,          \* task -> upstream calls it has issued
    permits,        \* task -> permits it was granted
    mpc,            \* the composite call: "call" | "gather" | "returned" | "raised"
    result,         \* the composite result: key -> value
    limiter,        \* RateLimiter(max_requests, time_window) as constructed, or "none"
    scope,          \* async with DataManager(): [pc, next], pc "out" | "entering" | "body" | "exiting" | "left"
    session,        \* fetcher -> its aiohttp session: "none" | "open" | "closed"
    scope_exc,      \* the exception leaving the scope, or "none"
    df,             \* the frame handed to an indicator function
    out,            \* the frame the indicator function returned, or "none"
    again           \* the frame the same call returned when handed out, or "none"

limiterVars == <<requests, av_requests, granted, issued>>
stepVars == <<now, appends, retries>>
callerVars == <<cpc, ctimer, stepVars>>
inputVars == <<op, tushare_enabled, ts_code_valid, news_api_key, max_retries, dispatch,
               validation, include>>
taskVars == <<task, calls, permits>>
managerVars == <<mpc, result>>
scopeVars == <<scope, session, scope_exc>>
indicatorVars == <<df, out, again>>
\* What the limiter, fetcher and composite-call actions leave alone.
restVars == <<limiter, scopeVars, indicatorVars>>
vars == <<limiterVars, callerVars, inputVars, taskVars, managerVars, restVars>>

Max(a, b) == IF a >= b THEN a ELSE b
Min(a, b) == IF a <= b THEN a ELSE b
Range(s) == {s[i]: i \in DOMAIN s}

(***************************************************************************)
(* RateLimiter.acquire, one attempt: lines 182-195 up to the sleep.        *)
(***************************************************************************)

\* A prune that keeps a timestamp exactly time_window old.
PruneKeepingBoundary(reqs, time_window) ==
    SelectSeq(reqs, LAMBDA req_time: Now - req_time <= time_window)

\* self.requests = [req_time for req_time in self.requests
\*                  if now - req_time < self.time_window]
Prune(reqs, time_window) ==
    SelectSeq(reqs, LAMBDA req_time: Now - req_time < time_window)

\* A capacity check that admits one request too many.
AtCapacityOffByOne(reqs, max_requests) == Len(reqs) > max_requests

\* if len(self.requests) >= self.max_requests
AtCapacity(reqs, max_requests) == Len(reqs) >= max_requests

\* sleep_time = self.time_window - (now - self.requests[0])
SleepTime(reqs, time_window) == time_window - (Now - reqs[1])

\* One attempt of acquire() on a ledger: the ledger it leaves, whether it
\* appended (granted), and otherwise the time it sleeps before the retry.
AcquireAttempt(reqs, max_requests, time_window) ==
    LET kept == Prune(reqs, time_window) IN
    IF AtCapacity(kept, max_requests) /\ SleepTime(kept, time_window) > 0
    THEN [granted |-> FALSE, requests |-> kept,
          sleep_time |-> SleepTime(kept, time_window)]
    ELSE [granted |-> TRUE, requests |-> Append(kept, Now), sleep_time |-> 0]

\* The clock advances by one: every timestamp is one unit older.
Aged(reqs) == [i \in DOMAIN reqs |-> Max(reqs[i] - 1, Oldest)]

\* The history of grants, kept while a grant can share a window with a new one.
AgedHistory(h) == SelectSeq(Aged(h), LAMBDA t: Now - t <= TimeWindow)

(***************************************************************************)
(* Values.  A frame of rows names the task that fetched it; pd.DataFrame() *)
(* and [] carry nothing; a dict carries its entries.                       *)
(***************************************************************************)
None == [src |-> "", frame |-> "None", parts |-> <<>>]
EmptyFrame == [src |-> "", frame |-> "empty", parts |-> <<>>]
Rows(t) == [src |-> t, frame |-> "rows", parts |-> <<>>]
Frame(t, o) == IF o = "rows" THEN Rows(t) ELSE EmptyFrame
Dict(t, entries) == [src |-> t, frame |-> "dict", parts |-> entries]
Meta == [src |-> "request", frame |-> "meta", parts |-> <<>>]
\* The asyncio.CancelledError instance the gather hands back for a cancelled
\* child: a BaseException that is not an Exception.
CancelledError == [src |-> "", frame |-> "CancelledError", parts |-> <<>>]

\* What an upstream call does: rows, no rows, or an exception.
Outcomes == {"rows", "empty", "error"}
\* What session.request does in async_request: status 200 (payload status ok
\* or not), another status, asyncio.TimeoutError, another exception.
HttpOutcomes == {"200_ok", "200_other", "status", "timeout", "exception"}

(***************************************************************************)
(* Tasks: the sub-requests of the composite calls, the seven statement     *)
(* fetches of get_all_financial_data, and fetcher methods called directly. *)
(***************************************************************************)
\* get_stock_comprehensive_data: the order of the include_* tests
ComprehensiveLabels == <<"kline", "financial", "money_flow", "news">>
\* get_market_overview: tasks, then the include_news test
OverviewLabels == <<"dragon_tiger", "margin", "news">>
Labels(o) == IF o = "comprehensive" THEN ComprehensiveLabels
             ELSE IF o = "overview" THEN OverviewLabels ELSE <<>>
AllLabels == Range(ComprehensiveLabels) \cup Range(OverviewLabels)

\* get_all_financial_data: tasks[0..6] and the keys of financial_data
AllStatements == <<"income_statement", "balance_sheet", "cashflow_statement",
                   "financial_indicators", "dividend_data", "forecast_data",
                   "express_data">>
\* The fan-out is checked on the first NumStatements of the seven fetches.
Statements == SubSeq(AllStatements, 1, NumStatements)
Members == Range(Statements)

\* Fetcher methods called on their own.
Methods == {"kline", "company_info", "money_flow", "external_news"}
\* Those that ask tushare.
TushareMethods == Methods \ {"external_news"}

Tasks == AllLabels \cup Members \cup Methods

\* DataManager.__init__: the four fetchers, in the order __aenter__ enters
\* and __aexit__ leaves them.
Fetchers == <<"kline_fetcher", "fundamental_fetcher", "market_fetcher", "news_fetcher">>

\* validate_stock_code not called yet.
NoValidation == [stock_code |-> <<>>, market |-> "", returned |-> "none"]

\* No dispatcher called yet.
NoDispatch == [fn |-> "none", selector |-> "", pc |-> "none", invoked |-> <<>>]

\* No RateLimiter constructed yet.
NoLimiter == [state |-> "none", max_requests |-> 0, time_window |-> 0]

\* A frame: its columns and its rows in order.
EmptyDf == [columns |-> {}, rows |-> <<>>]
\* No indicator function has run.
NoOutput == [fn |-> "none", args |-> <<>>, returned |-> "none", rows |-> <<>>, cols |-> <<>>]

\* get_stock_data: include_x = 'x' in data_types
DataTypes == {"kline", "financial", "market", "news"}
FlagsOf(data_types) ==
    [l \in AllLabels |->
        \/ l = "kline" /\ "kline" \in data_types
        \/ l = "financial" /\ "financial" \in data_types
        \/ l = "money_flow" /\ "market" \in data_types
        \/ l = "news" /\ "news" \in data_types]

\* get_market_overview(date, include_news)
OverviewFlags(include_news) ==
    [l \in AllLabels |-> l \in {"dragon_tiger", "margin"} \/ (l = "news" /\ include_news)]

\* The names appended whether or not the flag is set.
TaskNamesUnfiltered(o, inc) == Labels(o)

\* task_names: a name is appended under the same test as its task
TaskNames(o, inc) == SelectSeq(Labels(o), LAMBDA l: inc[l])

\* Every sub-request is built, whatever its flag.
SubmittedIgnoringFlags(o, inc) == Labels(o)

\* tasks: a coroutine is appended when its flag is set
Submitted(o, inc) == SelectSeq(Labels(o), LAMBDA l: inc[l])

\* asyncio.gather wraps its coroutines in tasks in argument order, and the
\* event loop gives tasks their first step in the order they were created:
\* the sub-requests first, then the statement fetches the 'financial' one
\* creates.  Task t may take its first step when no earlier task waits for its.
StartsNext(t) ==
    LET order == Submitted(op, include) \o Statements IN
    \A i \in DOMAIN order:
        order[i] = t => \A j \in 1..(i - 1): task[order[j]].pc # "ready"

\* The shape of a task's code.
\*   "adj":     get_daily_data(adj='qfq'): adj_factor, then daily
\*   "company": get_company_info: stock_basic, then stock_company
\*   "dragon":  get_dragon_tiger_data(include_institutions=True): two fetchers in sequence
\*   "fanout":  get_financial_statements('all') -> get_all_financial_data
\*   "http":    get_external_news -> async_request
\*   "single":  one acquire, one upstream call
Kind(t) ==
    CASE t = "kline" -> "adj"
      [] t = "company_info" -> "company"
      [] t = "dragon_tiger" -> "dragon"
      [] t = "financial" -> "fanout"
      [] t = "external_news" -> "http"
      [] OTHER -> "single"

Off == [pc |-> "off", timer |-> 0, stage |-> 1, attempt |-> 0,
        first |-> None, val |-> None, err |-> "none"]

Settled(r) == r.pc \in {"returned", "raised", "cancelled"}
AllSettled(tk, ts) == \A t \in ts: Settled(tk[t])

\* Every adapter imports the one tushare_limiter of utils.py.
LimiterOfSplit(t) == IF t \in Members THEN "alpha_vantage" ELSE "tushare"

LimiterOf(t) == "tushare"

(***************************************************************************)
(* A fetcher method from one await tushare_limiter.acquire() to the next   *)
(* suspension or to its end.                                               *)
(***************************************************************************)

\* After the upstream call of stage s answered o (not an exception): does the
\* method go on to a second acquire and call?
Continues(t, s, o) ==
    /\ s = 1
    /\ \/ Kind(t) = "dragon"
       \/ Kind(t) \in {"adj", "company"} /\ o = "rows"

\* The value the method returns when it ends at stage s with answer o.
Returns(t, s, first, o) ==
    CASE Kind(t) = "adj" -> IF s = 1 THEN EmptyFrame ELSE Frame(t, o)
      [] Kind(t) = "company" -> IF s = 1 THEN EmptyFrame ELSE first
      [] Kind(t) = "dragon" ->
            Dict(t, [k \in {"list", "institutions"} |->
                        IF k = "list" THEN first ELSE Frame(t, o)])
      [] OTHER -> Frame(t, o)

\* A method that gives its permit back when the upstream call fails.
LedgerAfterRefund(reqs, o) ==
    IF o = "error" THEN SubSeq(reqs, 1, Len(reqs) - 1) ELSE reqs

\* The ledger after the upstream call that followed a grant answered o:
\* neither the except block nor the empty-frame return touches the limiter.
LedgerAfter(reqs, o) == reqs

\* A method that, when its second fetch fails, returns what the first one
\* delivered instead of raising.
StageKeepingFirst(t, r, reqs, o) ==
    LET a == AcquireAttempt(reqs, MaxRequests, TimeWindow) IN
    IF ~a.granted
    THEN [requests |-> a.requests, permits |-> 0, calls |-> 0, more |-> FALSE,
          task |-> [r EXCEPT !.pc = "sleep", !.timer = a.sleep_time]]
    ELSE IF o = "error" /\ r.stage = 2
    THEN [requests |-> LedgerAfter(a.requests, o), permits |-> 1, calls |-> 1, more |-> FALSE,
          task |-> [r EXCEPT !.pc = "returned", !.timer = 0, !.err = "upstream",
                             !.val = Dict(t, [k \in {"list"} |-> r.first])]]
    ELSE IF o = "error"
    THEN [requests |-> LedgerAfter(a.requests, o), permits |-> 1, calls |-> 1, more |-> FALSE,
          task |-> [r EXCEPT !.pc = "raised", !.timer = 0, !.err = "upstream"]]
    ELSE IF Continues(t, r.stage, o)
    THEN [requests |-> LedgerAfter(a.requests, o), permits |-> 1, calls |-> 1, more |-> TRUE,
          task |-> [r EXCEPT !.pc = "ready", !.timer = 0, !.stage = 2,
                             !.first = Frame(t, o)]]
    ELSE [requests |-> LedgerAfter(a.requests, o), permits |-> 1, calls |-> 1, more |-> FALSE,
          task |-> [r EXCEPT !.pc = "returned", !.timer = 0,
                             !.val = Returns(t, r.stage, r.first, o)]]

\* Stage s of task r (its record) on ledger reqs, the upstream call answering o.
\* more: the method goes straight on to its next stage.
Stage(t, r, reqs, o) ==
    LET a == AcquireAttempt(reqs, MaxRequests, TimeWindow) IN
    IF ~a.granted
    THEN [requests |-> a.requests, permits |-> 0, calls |-> 0, more |-> FALSE,
          task |-> [r EXCEPT !.pc = "sleep", !.timer = a.sleep_time]]
    ELSE IF o = "error"
    THEN [requests |-> LedgerAfter(a.requests, o), permits |-> 1, calls |-> 1, more |-> FALSE,
          task |-> [r EXCEPT !.pc = "raised", !.timer = 0, !.err = "upstream"]]
    ELSE IF Continues(t, r.stage, o)
    THEN [requests |-> LedgerAfter(a.requests, o), permits |-> 1, calls |-> 1, more |-> TRUE,
          task |-> [r EXCEPT !.pc = "ready", !.timer = 0, !.stage = 2,
                             !.first = Frame(t, o)]]
    ELSE [requests |-> LedgerAfter(a.requests, o), permits |-> 1, calls |-> 1, more |-> FALSE,
          task |-> [r EXCEPT !.pc = "returned", !.timer = 0,
                             !.val = Returns(t, r.stage, r.first, o)]]

\* The run of the method up to its next suspension: one stage, and the second
\* one with it when the first goes straight on.
Fetch(t, r, reqs, o1, o2) ==
    LET s1 == Stage(t, r, reqs, o1) IN
    IF ~s1.more THEN s1
    ELSE LET s2 == Stage(t, s1.task, s1.requests, o2) IN
         [s2 EXCEPT !.permits = s1.permits + s2.permits,
                    !.calls = s1.calls + s2.calls]

\* A method that goes to acquire() without testing tushare_enabled.
EntryErrorUnchecked(t) ==
    IF Kind(t) \in {"adj", "company"} /\ ~ts_code_valid THEN "code" ELSE "none"

\* The checks a method makes before its try block.
\*   if not self.tushare_enabled: raise DataFlowException
\*   if not validate_stock_code(ts_code, 'cn'): raise DataFlowException
EntryError(t) ==
    IF ~tushare_enabled THEN "config"
    ELSE IF Kind(t) \in {"adj", "company"} /\ ~ts_code_valid THEN "code"
    ELSE "none"

\* asyncio.gather(..., return_exceptions=True): a child that ends with an
\* exception keeps it as its result; no sibling is touched.
SettleCancelling(tk, t, new) ==
    [u \in DOMAIN tk |->
        IF u = t THEN new
        ELSE IF new.pc = "raised" /\ tk[u].pc \in {"ready", "sleep"}
        THEN [tk[u] EXCEPT !.pc = "cancelled"]
        ELSE tk[u]]

Settle(tk, t, new) == [tk EXCEPT ![t] = new]

Repeat(n) == [i \in 1..n |-> Now]

\* The effect of a run f of task t on the limiter lim it acquires on.
Apply(t, lim, f) ==
    /\ requests' = IF lim = "tushare" THEN f.requests ELSE requests
    /\ av_requests' = IF lim = "tushare" THEN av_requests ELSE f.requests
    /\ granted' = IF lim = "tushare" THEN granted \o Repeat(f.permits) ELSE granted
    /\ issued' = issued \o Repeat(f.calls)
    /\ task' = Settle(task, t, f.task)
    /\ calls' = [calls EXCEPT ![t] = @ + f.calls]
    /\ permits' = [permits EXCEPT ![t] = @ + f.permits]

\* A task runs a fetcher method: from its start or from the end of a sleep in
\* acquire(), up to the next sleep or to the return or raise.
Run(t) ==
    /\ Kind(t) \in {"adj", "company", "dragon", "single"}
    /\ \/ task[t].pc = "ready" /\ StartsNext(t)
       \/ task[t].pc = "sleep" /\ task[t].timer = 0
    /\ IF task[t].pc = "ready" /\ EntryError(t) # "none"
       THEN /\ task' = Settle(task, t, [task[t] EXCEPT !.pc = "raised",
                                                      !.err = EntryError(t)])
            /\ UNCHANGED <<limiterVars, calls, permits>>
       ELSE LET lim == LimiterOf(t)
                reqs == IF lim = "tushare" THEN requests ELSE av_requests
            IN
            \E o1 \in Outcomes:
               LET s1 == Stage(t, task[t], reqs, o1) IN
               IF s1.more
               THEN \E o2 \in Outcomes: Apply(t, lim, Fetch(t, task[t], reqs, o1, o2))
               ELSE Apply(t, lim, s1)
    /\ UNCHANGED <<callerVars, inputVars, restVars, managerVars>>

(***************************************************************************)
(* NewsSentimentFetcher.get_external_news and async_request.               *)
(***************************************************************************)

\* await asyncio.sleep(2 ** attempt)
Backoff(attempt) == 2 ^ attempt

\* One attempt of async_request inside get_external_news.
HttpAttempt(r, o) ==
    IF o = "200_ok" THEN [r EXCEPT !.pc = "returned", !.timer = 0, !.val = Rows("external_news")]
    ELSE IF o = "200_other" THEN [r EXCEPT !.pc = "returned", !.timer = 0, !.val = EmptyFrame]
    ELSE IF r.attempt < MaxRetries
    THEN [r EXCEPT !.pc = "sleep", !.timer = Backoff(r.attempt), !.attempt = @ + 1]
    \* raise DataFlowException, caught by get_external_news: return []
    ELSE [r EXCEPT !.pc = "returned", !.timer = 0, !.val = EmptyFrame, !.err = "upstream"]

Request(t) ==
    /\ Kind(t) = "http"
    /\ \/ task[t].pc = "ready"
       \/ task[t].pc = "sleep" /\ task[t].timer = 0
    /\ IF task[t].pc = "ready" /\ ~news_api_key
       THEN /\ task' = [task EXCEPT ![t] = [@ EXCEPT !.pc = "returned", !.val = EmptyFrame]]
            /\ UNCHANGED calls
       ELSE \E o \in HttpOutcomes:
            /\ task' = [task EXCEPT ![t] = HttpAttempt(@, o)]
            /\ calls' = [calls EXCEPT ![t] = @ + 1]
    /\ UNCHANGED <<limiterVars, callerVars, inputVars, restVars, permits, managerVars>>

\* What one pass of the loop of async_request meets: status 200 with a JSON
\* body, status 200 whose body response.json() cannot parse (an exception),
\* another status, asyncio.TimeoutError, another exception.
Responses == {"200", "200_unparsable", "status", "timeout", "exception"}

\* The JSON payload of the response.
Payload == Rows("response")

\* A loop that ends without raising when its last attempt failed: the
\* function returns None.
IterationFallingOff(r, o, retries_allowed) ==
    IF o = "200" THEN [r EXCEPT !.pc = "returned", !.timer = 0, !.val = Payload]
    ELSE IF r.attempt < retries_allowed
    THEN [r EXCEPT !.pc = "sleep", !.timer = Backoff(r.attempt), !.attempt = @ + 1, !.err = o]
    ELSE [r EXCEPT !.pc = "returned", !.timer = 0, !.err = o]

\* One pass of `for attempt in range(max_retries + 1)`: return the payload on
\* status 200; otherwise sleep 2 ** attempt when attempt < max_retries, else
\* raise DataFlowException.
Iteration(r, o, retries_allowed) ==
    IF o = "200" THEN [r EXCEPT !.pc = "returned", !.timer = 0, !.val = Payload]
    ELSE IF r.attempt < retries_allowed
    THEN [r EXCEPT !.pc = "sleep", !.timer = Backoff(r.attempt), !.attempt = @ + 1, !.err = o]
    ELSE [r EXCEPT !.pc = "raised", !.timer = 0, !.err = o]

\* async_request(session, method, url, ...) is called.
CallAsyncRequest ==
    /\ op = "request"
    /\ task["external_news"].pc = "off"
    /\ task' = [task EXCEPT !["external_news"].pc = "ready"]
    /\ UNCHANGED <<limiterVars, callerVars, inputVars, restVars, calls, permits, managerVars>>

\* The next attempt of async_request: the first, or the one after a sleep.
AsyncRequest ==
    /\ op = "request"
    /\ \/ task["external_news"].pc = "ready"
       \/ task["external_news"].pc = "sleep" /\ task["external_news"].timer = 0
    /\ \E o \in Responses:
          task' = [task EXCEPT !["external_news"] = Iteration(@, o, max_retries)]
    /\ calls' = [calls EXCEPT !["external_news"] = @ + 1]
    /\ UNCHANGED <<limiterVars, callerVars, inputVars, restVars, permits, managerVars>>

\* A fetcher method is called on its own.
Invoke(t) ==
    /\ op = "methods"
    /\ t \in Methods
    /\ task[t].pc = "off"
    /\ task' = [task EXCEPT ![t].pc = "ready"]
    /\ UNCHANGED <<limiterVars, callerVars, inputVars, restVars, calls, permits, managerVars>>

(***************************************************************************)
(* FundamentalDataFetcher.get_all_financial_data.                          *)
(***************************************************************************)

\* tasks = [...]; results = await asyncio.gather(*tasks, return_exceptions=True)
FanOut(t) ==
    /\ Kind(t) = "fanout"
    /\ task[t].pc = "ready"
    /\ StartsNext(t)
    /\ task' = [u \in Tasks |->
                  IF u = t THEN [task[u] EXCEPT !.pc = "gather"]
                  ELSE IF u \in Members THEN [task[u] EXCEPT !.pc = "ready"]
                  ELSE task[u]]
    /\ UNCHANGED <<limiterVars, callerVars, inputVars, restVars, calls, permits, managerVars>>

\* An entry whose member raised holds None instead of a frame.
MemberEntryNone(r) == IF r.pc = "raised" THEN None ELSE r.val

\* results[i] if not isinstance(results[i], Exception) else pd.DataFrame()
MemberEntry(r) == IF r.pc = "raised" THEN EmptyFrame ELSE r.val

FinancialData(tk) == [k \in Members |-> MemberEntry(tk[k])]

\* A get_all_financial_data that raises when one of its fetches raised.
CollectRaising(t) ==
    /\ Kind(t) = "fanout"
    /\ task[t].pc = "gather"
    /\ AllSettled(task, Members)
    /\ task' = Settle(task, t,
                      IF \E m \in Members: task[m].pc = "raised"
                      THEN [task[t] EXCEPT !.pc = "raised", !.err = "upstream"]
                      ELSE [task[t] EXCEPT !.pc = "returned",
                                           !.val = Dict(t, FinancialData(task))])
    /\ UNCHANGED <<limiterVars, callerVars, inputVars, restVars, calls, permits, managerVars>>

\* The gather of the seven fetches is over: financial_data is returned.
Collect(t) ==
    /\ Kind(t) = "fanout"
    /\ task[t].pc = "gather"
    /\ AllSettled(task, Members)
    /\ task' = Settle(task, t, [task[t] EXCEPT !.pc = "returned",
                                              !.val = Dict(t, FinancialData(task))])
    /\ UNCHANGED <<limiterVars, callerVars, inputVars, restVars, calls, permits, managerVars>>

(***************************************************************************)
(* DataManager.get_stock_comprehensive_data and get_market_overview.       *)
(***************************************************************************)

\* The keys the result holds before the gather.
MetaKeys(o) == IF o = "comprehensive"
               THEN {"ts_code", "start_date", "end_date", "update_time"}
               ELSE {"date", "update_time"}

\* A gather that hands the first exception to its caller.
ReturnExceptionsOff == FALSE

\* asyncio.gather(*tasks, return_exceptions=True)
ReturnExceptions == TRUE

\* A gather that is over as soon as one child is.
GatherFirstCompleted(tk, ts) == \E t \in ts: Settled(tk[t])

\* The awaited gather is over: with return_exceptions every child has ended;
\* without, also as soon as one child has raised.
GatherDone(tk, ts) ==
    IF ReturnExceptions THEN AllSettled(tk, ts)
    ELSE AllSettled(tk, ts) \/ \E t \in ts: tk[t].pc = "raised"

\* for task_result, task_name in zip(results, task_names):
\*     result[task_name] = None if isinstance(task_result, Exception) else task_result
Zip(results, names) ==
    LET n == Min(Len(results), Len(names)) IN
    [k \in {names[i]: i \in 1..n} |->
        LET i == CHOOSE j \in 1..n: names[j] = k IN
        IF results[i].pc = "raised" THEN None
        ELSE IF results[i].pc = "cancelled" THEN CancelledError
        ELSE results[i].val]

Merge(d, e) == [k \in DOMAIN d \cup DOMAIN e |-> IF k \in DOMAIN e THEN e[k] ELSE d[k]]

\* result = {...}; tasks and task_names are built; the gather is awaited
\* (if tasks: in get_stock_comprehensive_data).
Submit ==
    /\ op \in {"comprehensive", "overview"}
    /\ mpc = "call"
    /\ LET tasks == Submitted(op, include) IN
       /\ result' = [k \in MetaKeys(op) |-> Meta]
       /\ IF tasks = <<>>
          THEN mpc' = "returned" /\ UNCHANGED task
          ELSE /\ mpc' = "gather"
               /\ task' = [t \in Tasks |->
                             IF t \in Range(tasks) THEN [task[t] EXCEPT !.pc = "ready"]
                             ELSE task[t]]
    /\ UNCHANGED <<limiterVars, callerVars, inputVars, restVars, calls, permits>>

\* An aggregator that, the gather over, starts the failed sub-requests again.
ReturnRetrying ==
    /\ mpc = "gather"
    /\ LET tasks == Submitted(op, include) IN
       /\ GatherDone(task, Range(tasks))
       /\ IF \E t \in Range(tasks): task[t].pc = "raised"
          THEN /\ task' = [t \in Tasks |->
                             IF t \in Range(tasks) /\ task[t].pc = "raised"
                             THEN [Off EXCEPT !.pc = "ready"] ELSE task[t]]
               /\ UNCHANGED <<mpc, result>>
          ELSE /\ mpc' = "returned"
               /\ result' = Merge(result, Zip([i \in 1..Len(tasks) |-> task[tasks[i]]],
                                              TaskNames(op, include)))
               /\ UNCHANGED task
    /\ UNCHANGED <<limiterVars, callerVars, inputVars, restVars, calls, permits>>

\* The gather is over: the results are filed under their names and the result
\* is returned (or the exception of the gather is raised again).
Return ==
    /\ mpc = "gather"
    /\ LET tasks == Submitted(op, include)
           results == [i \in 1..Len(tasks) |-> task[tasks[i]]]
       IN
       /\ GatherDone(task, Range(tasks))
       /\ IF ~ReturnExceptions /\ \E t \in Range(tasks): task[t].pc = "raised"
          THEN mpc' = "raised" /\ UNCHANGED result
          ELSE /\ mpc' = "returned"
               /\ result' = Merge(result, Zip(results, TaskNames(op, include)))
    /\ UNCHANGED <<limiterVars, callerVars, inputVars, restVars, taskVars>>

\* A sub-task of the gather is cancelled while it is suspended in the sleep
\* of acquire(): CancelledError is raised at the await, passes the method's
\* `except Exception` and ends the task.
CancelChild(t) ==
    /\ mpc = "gather"
    /\ t \in Range(Submitted(op, include))
    /\ task[t].pc = "sleep"
    /\ task' = Settle(task, t, [task[t] EXCEPT !.pc = "cancelled", !.timer = 0])
    /\ UNCHANGED <<limiterVars, callerVars, inputVars, restVars, calls, permits, managerVars>>

(***************************************************************************)
(* Callers of tushare_limiter.acquire().                                   *)
(***************************************************************************)

\* A task calls acquire() (again, once its previous call has returned).
Call(c) ==
    /\ cpc[c] = "idle"
    /\ cpc' = [cpc EXCEPT ![c] = "acquire"]
    /\ UNCHANGED <<limiterVars, ctimer, stepVars, inputVars, restVars, taskVars, managerVars>>

\* The caller runs acquire() from the top: on entry, or when its sleep is over
\* (return await self.acquire()).
Acquire(c) ==
    /\ \/ cpc[c] = "acquire"
       \/ cpc[c] = "sleep" /\ ctimer[c] = 0
    /\ LET a == AcquireAttempt(requests, MaxRequests, TimeWindow) IN
       /\ requests' = a.requests
       /\ granted' = IF a.granted THEN Append(granted, Now) ELSE granted
       /\ cpc' = [cpc EXCEPT ![c] = IF a.granted THEN "idle" ELSE "sleep"]
       /\ ctimer' = [ctimer EXCEPT ![c] = a.sleep_time]
    /\ now' = [now EXCEPT ![c] = Now]
    /\ UNCHANGED <<av_requests, issued, appends, retries, inputVars, restVars,
                   taskVars, managerVars>>

(***************************************************************************)
(* validate_stock_code.  A string is the sequence of its characters.       *)
(***************************************************************************)
Digits == {"0", "1", "6"}
Letters == {"A", "B", "H", "J", "K", "L", "P", "S", "Z"}

\* str.isdigit() and str.isalpha(): false for the empty string.
IsDigit(str) == str # <<>> /\ \A i \in DOMAIN str: str[i] \in Digits
IsAlpha(str) == str # <<>> /\ \A i \in DOMAIN str: str[i] \in Letters

\* '.' in stock_code
HasDot(str) == \E i \in DOMAIN str: str[i] = "."

\* stock_code.split('.'): the pieces between the dots, empty ones included.
RECURSIVE Split(_)
Split(str) ==
    IF ~HasDot(str) THEN <<str>>
    ELSE LET i == CHOOSE j \in DOMAIN str: str[j] = "." /\ \A k \in 1..(j - 1): str[k] # "."
         IN  <<SubSeq(str, 1, i - 1)>> \o Split(SubSeq(str, i + 1, Len(str)))

\* suffix in ['SH', 'SZ', 'BJ']
Exchanges == {<<"S", "H">>, <<"S", "Z">>, <<"B", "J">>}

\* validate_stock_code(stock_code, market): "True", "False", or the exception
\* that leaves the function.
validate_stock_code(stock_code, market) ==
    IF stock_code = <<>> THEN "False"
    ELSE IF market \in {"cn", "hk"}
    THEN IF ~HasDot(stock_code) THEN "False"
         ELSE \* symbol, suffix = stock_code.split('.'): ValueError unless two pieces
              LET parts == Split(stock_code) IN
              IF Len(parts) # 2 THEN "ValueError"
              ELSE LET symbol == parts[1]
                       suffix == parts[2]
                   IN  IF market = "cn"
                       THEN IF Len(symbol) = 6 /\ IsDigit(symbol) /\ suffix \in Exchanges
                            THEN "True" ELSE "False"
                       ELSE IF Len(symbol) = 5 /\ IsDigit(symbol) /\ suffix = <<"H", "K">>
                            THEN "True" ELSE "False"
    ELSE IF market = "us"
    THEN IF IsAlpha(stock_code) /\ Len(stock_code) <= 5 THEN "True" ELSE "False"
    ELSE "False"

\* The pieces codes are put together from, joined by dots.
Pieces == {<<>>, <<"0", "0", "0", "0", "0", "1">>, <<"6", "0", "0", "0", "0">>,
           <<"0", "0", "0", "0", "1", "A">>, <<"S", "Z">>, <<"H", "K">>,
           <<"A", "A", "P", "L">>, <<"A", "A", "P", "L", "S", "Z">>}

RECURSIVE Join(_)
Join(pieces) ==
    IF Len(pieces) = 1 THEN pieces[1]
    ELSE pieces[1] \o <<".">> \o Join(Tail(pieces))

\* The codes tried: up to MaxDots dots.
Codes == {Join(ps): ps \in UNION {[1..n -> Pieces]: n \in 1..(MaxDots + 1)}}
Markets == {"cn", "hk", "us", "jp"}

\* validate_stock_code(stock_code, market) is called.
Validate ==
    /\ op = "validate"
    /\ validation.returned = "none"
    /\ validation' = [validation EXCEPT
                        !.returned = validate_stock_code(validation.stock_code,
                                                         validation.market)]
    /\ UNCHANGED <<limiterVars, callerVars, op, tushare_enabled, ts_code_valid,
                   news_api_key, max_retries, dispatch, include, restVars, taskVars,
                   managerVars>>

(***************************************************************************)
(* The dispatchers of DataManager: get_kline_data (freq),                  *)
(* get_financial_statements (statement_type), get_margin_data (data_type). *)
(***************************************************************************)
Dispatchers == {"get_kline_data", "get_financial_statements", "get_margin_data"}

Minutes == {"1min", "5min", "15min", "30min", "60min"}

\* The selectors tried: those the if/elif chains name, and some they do not.
Selectors(fn) ==
    CASE fn = "get_kline_data" -> {"daily", "weekly", "monthly", "yearly", "2min", ""} \cup Minutes
      [] fn = "get_financial_statements" -> {"income", "balance", "cashflow", "all", "equity", ""}
      [] fn = "get_margin_data" -> {"detail", "target", "summary", ""}

\* A dispatcher whose else branch falls back to its first method.
TargetDefaulting(fn, sel) ==
    CASE fn = "get_kline_data" ->
            IF sel = "weekly" THEN "get_weekly_data"
            ELSE IF sel = "monthly" THEN "get_monthly_data"
            ELSE IF sel \in Minutes THEN "get_minute_data"
            ELSE "get_daily_data"
      [] fn = "get_financial_statements" ->
            IF sel = "balance" THEN "get_balance_sheet"
            ELSE IF sel = "cashflow" THEN "get_cashflow_statement"
            ELSE IF sel = "all" THEN "get_all_financial_data"
            ELSE "get_income_statement"
      [] fn = "get_margin_data" ->
            IF sel = "target" THEN "get_margin_target" ELSE "get_margin_detail"

\* The fetcher method the if/elif chain awaits for the selector; "raise" for
\* the else branch (raise DataFlowException).
Target(fn, sel) ==
    CASE fn = "get_kline_data" ->
            IF sel = "daily" THEN "get_daily_data"
            ELSE IF sel = "weekly" THEN "get_weekly_data"
            ELSE IF sel = "monthly" THEN "get_monthly_data"
            ELSE IF sel \in Minutes THEN "get_minute_data"
            ELSE "raise"
      [] fn = "get_financial_statements" ->
            IF sel = "income" THEN "get_income_statement"
            ELSE IF sel = "balance" THEN "get_balance_sheet"
            ELSE IF sel = "cashflow" THEN "get_cashflow_statement"
            ELSE IF sel = "all" THEN "get_all_financial_data"
            ELSE "raise"
      [] fn = "get_margin_data" ->
            IF sel = "detail" THEN "get_margin_detail"
            ELSE IF sel = "target" THEN "get_margin_target"
            ELSE "raise"

\* The task in which the awaited fetcher method asks the limiter.
Fetcher == 1

\* The dispatcher is called.  The else branch raises inside the try and the
\* except block raises it again; any other branch awaits one fetcher method,
\* which goes to tushare_limiter.acquire().
Dispatch(fn, sel) ==
    /\ op = "dispatch"
    /\ dispatch.pc = "none"
    /\ IF Target(fn, sel) = "raise"
       THEN /\ dispatch' = [fn |-> fn, selector |-> sel, pc |-> "raised", invoked |-> <<>>]
            /\ UNCHANGED cpc
       ELSE /\ dispatch' = [fn |-> fn, selector |-> sel, pc |-> "awaiting",
                            invoked |-> <<Target(fn, sel)>>]
            /\ cpc' = [cpc EXCEPT ![Fetcher] = "acquire"]
    /\ UNCHANGED <<limiterVars, ctimer, stepVars, op, tushare_enabled, ts_code_valid,
                   news_api_key, max_retries, validation, include, restVars, taskVars,
                   managerVars>>

\* The awaited fetcher method is over: the dispatcher returns its value, or
\* raises its exception again.
DispatchReturn ==
    /\ dispatch.pc = "awaiting"
    /\ cpc[Fetcher] = "idle"
    /\ \E o \in Outcomes:
          dispatch' = [dispatch EXCEPT !.pc = IF o = "error" THEN "raised" ELSE "returned"]
    /\ UNCHANGED <<limiterVars, callerVars, op, tushare_enabled, ts_code_valid,
                   news_api_key, max_retries, validation, include, restVars, taskVars,
                   managerVars>>

(***************************************************************************)
(* RateLimiter.acquire statement by statement.  The statements of one      *)
(* call run in order; the event loop decides when another call runs.       *)
(***************************************************************************)

\* Between the prune and the append of a call.
Mid == {"pruned", "append"}

\* Calls that run on threads: any of them may take the next statement.
RunsPreemptively(c) == TRUE

\* acquire() has no await between `now = time.time()` and the append other
\* than the sleep: while one call is between its prune and its append the
\* event loop runs no other.
Runs(c) == \A o \in Callers \ {c}: cpc[o] \notin Mid

\* A call that sleeps once and then appends.
ResumesAtAppend == "append"

\* return await self.acquire(): a woken call starts again at the top.
Resumes == "acquire"

\* A sleep that ends one unit before the oldest timestamp expires.
SleepTimeShort(reqs, n, time_window) == time_window - 1 - (n - reqs[1])

\* sleep_time = self.time_window - (now - self.requests[0]), now the local.
SleepTimeAt(reqs, n, time_window) == time_window - (n - reqs[1])

\* An append at the head of the ledger.
RecordedFirst(reqs, n) == <<n>> \o reqs

\* self.requests.append(now)
Recorded(reqs, n) == Append(reqs, n)

\* await tushare_limiter.acquire(): a new call.
Enter(c) ==
    /\ cpc[c] \in {"idle", "returned"}
    /\ cpc' = [cpc EXCEPT ![c] = "acquire"]
    /\ appends' = [appends EXCEPT ![c] = 0]
    /\ retries' = [retries EXCEPT ![c] = 0]
    /\ UNCHANGED <<limiterVars, ctimer, now, inputVars, restVars, taskVars, managerVars>>

\* asyncio.sleep(sleep_time) is over.
Wake(c) ==
    /\ cpc[c] = "sleep" /\ ctimer[c] = 0
    /\ cpc' = [cpc EXCEPT ![c] = Resumes]
    /\ retries' = [retries EXCEPT ![c] = Min(@ + 1, MaxSleeps)]
    /\ UNCHANGED <<limiterVars, ctimer, now, appends, inputVars, restVars, taskVars,
                   managerVars>>

\* now = time.time(); self.requests = [... if now - req_time < self.time_window]
ReadAndPrune(c) ==
    /\ cpc[c] = "acquire"
    /\ Runs(c)
    /\ now' = [now EXCEPT ![c] = Now]
    /\ requests' = Prune(requests, TimeWindow)
    /\ cpc' = [cpc EXCEPT ![c] = "pruned"]
    /\ UNCHANGED <<av_requests, granted, issued, ctimer, appends, retries, inputVars,
                   restVars, taskVars, managerVars>>

\* if len(self.requests) >= self.max_requests: ... if sleep_time > 0: sleep
Check(c) ==
    /\ cpc[c] = "pruned"
    /\ Runs(c)
    /\ IF /\ AtCapacity(requests, MaxRequests)
          /\ SleepTimeAt(requests, now[c], TimeWindow) > 0
       THEN /\ cpc' = [cpc EXCEPT ![c] = "sleep"]
            /\ ctimer' = [ctimer EXCEPT ![c] = SleepTimeAt(requests, now[c], TimeWindow)]
       ELSE /\ cpc' = [cpc EXCEPT ![c] = "append"]
            /\ UNCHANGED ctimer
    /\ UNCHANGED <<limiterVars, stepVars, inputVars, restVars, taskVars, managerVars>>

\* self.requests.append(now), and acquire() returns.
AppendNow(c) ==
    /\ cpc[c] = "append"
    /\ Runs(c)
    /\ requests' = Recorded(requests, now[c])
    /\ granted' = Append(granted, now[c])
    /\ appends' = [appends EXCEPT ![c] = @ + 1]
    /\ cpc' = [cpc EXCEPT ![c] = "returned"]
    /\ UNCHANGED <<av_requests, issued, ctimer, now, retries, inputVars, restVars,
                   taskVars, managerVars>>

\* RateLimiter(max_requests, time_window): __init__ stores its arguments.
Construct(max_requests, time_window) ==
    /\ limiter.state = "none"
    /\ limiter' = [state |-> "constructed", max_requests |-> max_requests,
                   time_window |-> time_window]
    /\ UNCHANGED <<limiterVars, callerVars, inputVars, taskVars, managerVars,
                   scopeVars, indicatorVars>>

\* A task calls acquire() on the limiter that was constructed.
CallOn(c) ==
    /\ limiter.state = "constructed"
    /\ Call(c)

\* acquire() on the limiter that was constructed.  With the ledger empty after
\* the prune and still at capacity, self.requests[0] raises IndexError.
AcquireOn(c) ==
    /\ limiter.state = "constructed"
    \* the history of grants is followed up to one grant beyond max_requests
    /\ Len(granted) <= MaxRequests
    /\ \/ cpc[c] = "acquire"
       \/ cpc[c] = "sleep" /\ ctimer[c] = 0
    /\ LET kept == Prune(requests, limiter.time_window) IN
       IF AtCapacity(kept, limiter.max_requests) /\ kept = <<>>
       THEN /\ requests' = kept
            /\ cpc' = [cpc EXCEPT ![c] = "raised"]
            /\ UNCHANGED <<granted, ctimer>>
       ELSE LET a == AcquireAttempt(requests, limiter.max_requests, limiter.time_window) IN
            /\ requests' = a.requests
            /\ granted' = IF a.granted THEN Append(granted, Now) ELSE granted
            /\ cpc' = [cpc EXCEPT ![c] = IF a.granted THEN "idle" ELSE "sleep"]
            /\ ctimer' = [ctimer EXCEPT ![c] = a.sleep_time]
    /\ now' = [now EXCEPT ![c] = Now]
    /\ UNCHANGED <<av_requests, issued, appends, retries, inputVars, restVars,
                   taskVars, managerVars>>

(***************************************************************************)
(* async with DataManager() as manager: ...                                *)
(***************************************************************************)

\* DataManager(): the four fetcher attributes are None; __aenter__ begins.
EnterScope ==
    /\ scope.pc = "out"
    /\ scope' = [pc |-> "entering", next |-> 1]
    /\ UNCHANGED <<limiterVars, callerVars, inputVars, taskVars, managerVars,
                   limiter, session, scope_exc, indicatorVars>>

\* __aenter__: self.x_fetcher = await XFetcher().__aenter__().  The fetcher
\* opens its aiohttp.ClientSession; when the constructor or the session
\* raises, __aenter__ raises and the with statement never calls __aexit__.
EnterFetcher(ok) ==
    /\ scope.pc = "entering"
    /\ LET f == Fetchers[scope.next] IN
       IF ok
       THEN /\ session' = [session EXCEPT ![f] = "open"]
            /\ scope' = IF scope.next = Len(Fetchers)
                        THEN [pc |-> "body", next |-> 1]
                        ELSE [scope EXCEPT !.next = @ + 1]
            /\ UNCHANGED scope_exc
       ELSE /\ scope' = [scope EXCEPT !.pc = "left"]
            /\ scope_exc' = "enter"
            /\ UNCHANGED session
    /\ UNCHANGED <<limiterVars, callerVars, inputVars, taskVars, managerVars,
                   limiter, indicatorVars>>

\* The body of the with statement ends, with the exception of a fetcher
\* method it awaited if one raised; __aexit__ begins.
LeaveBody ==
    /\ scope.pc = "body"
    /\ \A t \in Methods: task[t].pc \in {"off", "returned", "raised"}
    /\ scope' = [pc |-> "exiting", next |-> 1]
    /\ scope_exc' = IF \E t \in Methods: task[t].pc = "raised" THEN "body" ELSE "none"
    /\ UNCHANGED <<limiterVars, callerVars, inputVars, taskVars, managerVars,
                   limiter, session, indicatorVars>>

\* __aexit__: if self.x_fetcher: await self.x_fetcher.__aexit__(...), which
\* awaits session.close().  When that raises, __aexit__ raises there and
\* then; the session that was being closed may or may not be closed.
ExitFetcher(ok, closed) ==
    /\ scope.pc = "exiting"
    /\ LET f == Fetchers[scope.next] IN
       IF ok
       THEN /\ session' = [session EXCEPT ![f] = "closed"]
            /\ scope' = IF scope.next = Len(Fetchers)
                        THEN [scope EXCEPT !.pc = "left"]
                        ELSE [scope EXCEPT !.next = @ + 1]
            /\ UNCHANGED scope_exc
       ELSE /\ session' = [session EXCEPT ![f] = IF closed THEN "closed" ELSE "open"]
            /\ scope' = [scope EXCEPT !.pc = "left"]
            /\ scope_exc' = "close"
    /\ UNCHANGED <<limiterVars, callerVars, inputVars, taskVars, managerVars,
                   limiter, indicatorVars>>

(***************************************************************************)
(* Technical indicators (utils.py 204-433).                                *)
(*                                                                         *)
(* Numbers.  A float64 is modelled as an exact fraction n/d in lowest      *)
(* terms (d > 0), or NaN, or an infinity of sign n; rounding is not        *)
(* modelled.  Arithmetic on NaN and the infinities follows IEEE 754 as     *)
(* numpy applies it to a Series: x/0 is an infinity for x # 0 and NaN for  *)
(* x = 0, inf - inf and 0 * inf are NaN, NaN compares unequal to           *)
(* everything.  Zero carries no sign: a negative zero divisor would turn   *)
(* +inf into -inf, which calculate_rsi maps to the same value.             *)
(***************************************************************************)
Abs(a) == IF a < 0 THEN -a ELSE a
Sign(a) == IF a < 0 THEN -1 ELSE IF a > 0 THEN 1 ELSE 0

RECURSIVE GCD(_, _)
GCD(a, b) == IF b = 0 THEN a ELSE GCD(b, a % b)

NaN == [k |-> "nan", n |-> 0, d |-> 1]
Inf(s) == [k |-> "inf", n |-> s, d |-> 1]
Rat(n, d) ==
    LET g == GCD(Abs(n), Abs(d)) IN
    [k |-> "num", n |-> (Sign(d) * n) \div g, d |-> Abs(d) \div g]
Int2Num(a) == [k |-> "num", n |-> a, d |-> 1]

IsNaN(x) == x.k = "nan"
IsInf(x) == x.k = "inf"
IsFinite(x) == x.k = "num"

Neg(x) == IF IsNaN(x) THEN NaN ELSE [x EXCEPT !.n = -x.n]

Add(x, y) ==
    IF IsNaN(x) \/ IsNaN(y) THEN NaN
    ELSE IF IsInf(x) /\ IsInf(y) THEN (IF x.n = y.n THEN x ELSE NaN)
    ELSE IF IsInf(x) THEN x
    ELSE IF IsInf(y) THEN y
    ELSE Rat(x.n * y.d + y.n * x.d, x.d * y.d)

Sub(x, y) == Add(x, Neg(y))

Mul(x, y) ==
    IF IsNaN(x) \/ IsNaN(y) THEN NaN
    ELSE IF IsInf(x) \/ IsInf(y)
    THEN (IF x.n = 0 \/ y.n = 0 THEN NaN ELSE Inf(Sign(x.n) * Sign(y.n)))
    ELSE Rat(x.n * y.n, x.d * y.d)

\* Series / Series: float division, no ZeroDivisionError.
Div(x, y) ==
    IF IsNaN(x) \/ IsNaN(y) THEN NaN
    ELSE IF IsInf(x) /\ IsInf(y) THEN NaN
    ELSE IF IsInf(x) THEN Inf(IF y.n < 0 THEN -x.n ELSE x.n)
    ELSE IF IsInf(y) THEN Int2Num(0)
    ELSE IF y.n = 0 THEN (IF x.n = 0 THEN NaN ELSE Inf(Sign(x.n)))
    ELSE Rat(x.n * y.d, x.d * y.n)

\* ==, < and > on floats: false as soon as one side is NaN.
FEq(x, y) == ~IsNaN(x) /\ ~IsNaN(y) /\ x = y
Less(x, y) ==
    /\ ~IsNaN(x) /\ ~IsNaN(y) /\ x # y
    /\ IF IsInf(x) THEN x.n < 0
       ELSE IF IsInf(y) THEN y.n > 0
       ELSE x.n * y.d < y.n * x.d
Greater(x, y) == Less(y, x)

(***************************************************************************)
(* Series: sequences of numbers, row 1 first.                              *)
(***************************************************************************)
Zero == Int2Num(0)
One == Int2Num(1)
Hundred == Int2Num(100)

RECURSIVE SumOf(_, _, _)
\* The sum of the observations (non-NaN values) among xs[lo..hi].
SumOf(xs, lo, hi) ==
    IF lo > hi THEN Zero
    ELSE IF IsNaN(xs[hi]) THEN SumOf(xs, lo, hi - 1)
    ELSE Add(SumOf(xs, lo, hi - 1), xs[hi])

Count(xs, lo, hi) == Cardinality({j \in lo..hi: ~IsNaN(xs[j])})

\* A window that also takes in the row after the current one.
WindowWithNext(n, i, p) == [lo |-> Max(1, i - p + 2), hi |-> Min(n, i + 1)]

\* rolling(window=p): at row i of n, the p rows ending at row i.
Window(n, i, p) == [lo |-> Max(1, i - p + 1), hi |-> i]

\* rolling() without min_periods: a full window or nothing.
MinPeriodsDefault(p) == p

\* rolling(..., min_periods=1)
MinPeriods(p) == 1

\* rolling(window=p, min_periods=1).mean()
RollingMean(xs, p) ==
    [i \in 1..Len(xs) |->
        LET w == Window(Len(xs), i, p)
            c == Count(xs, w.lo, w.hi)
        IN  IF c < MinPeriods(p) THEN NaN
            ELSE Div(SumOf(xs, w.lo, w.hi), Int2Num(c))]

RECURSIVE Extreme(_, _, _, _)
\* The largest (sign = 1) or smallest (sign = -1) observation among xs[lo..hi].
Extreme(xs, lo, hi, sign) ==
    IF lo > hi THEN NaN
    ELSE LET rest == Extreme(xs, lo, hi - 1, sign) IN
         IF IsNaN(xs[hi]) THEN rest
         ELSE IF IsNaN(rest) THEN xs[hi]
         ELSE IF sign = 1
         THEN (IF Greater(xs[hi], rest) THEN xs[hi] ELSE rest)
         ELSE (IF Less(xs[hi], rest) THEN xs[hi] ELSE rest)

\* rolling(window=p, min_periods=1).max()
RollingMax(xs, p) ==
    [i \in 1..Len(xs) |->
        LET w == Window(Len(xs), i, p) IN
        IF Count(xs, w.lo, w.hi) < MinPeriods(p) THEN NaN
        ELSE Extreme(xs, w.lo, w.hi, 1)]

\* rolling(window=p, min_periods=1).min()
RollingMin(xs, p) ==
    [i \in 1..Len(xs) |->
        LET w == Window(Len(xs), i, p) IN
        IF Count(xs, w.lo, w.hi) < MinPeriods(p) THEN NaN
        ELSE Extreme(xs, w.lo, w.hi, -1)]

\* rolling(window=p, min_periods=1).std(), squared: the sample variance
\* (ddof = 1), which one observation does not define.
RollingVar(xs, p) ==
    [i \in 1..Len(xs) |->
        LET w == Window(Len(xs), i, p)
            c == Count(xs, w.lo, w.hi)
            mean == Div(SumOf(xs, w.lo, w.hi), Int2Num(c))
            sq == [j \in 1..Len(xs) |-> Mul(Sub(xs[j], mean), Sub(xs[j], mean))]
        IN  IF c < MinPeriods(p) \/ c - 1 <= 0 THEN NaN
            ELSE Div(SumOf(sq, w.lo, w.hi), Int2Num(c - 1))]

\* Series.diff()
Diff(xs) ==
    [i \in 1..Len(xs) |-> IF i = 1 THEN NaN ELSE Sub(xs[i], xs[i - 1])]

\* Series.pct_change()
PctChange(xs) ==
    [i \in 1..Len(xs) |-> IF i = 1 THEN NaN ELSE Sub(Div(xs[i], xs[i - 1]), One)]

\* Series.fillna(v)
Fillna(xs, v) == [i \in 1..Len(xs) |-> IF IsNaN(xs[i]) THEN v ELSE xs[i]]

\* A step that gives the weight alpha to the past and 1 - alpha to the new
\* value.
EwmStepSwapped(s, cur, alpha) ==
    IF ~IsNaN(s.w)
    THEN LET old_wt == Mul(s.old_wt, alpha) IN
         IF IsNaN(cur) THEN [w |-> s.w, old_wt |-> old_wt]
         ELSE [w |-> IF FEq(s.w, cur) THEN s.w
                     ELSE Div(Add(Mul(old_wt, s.w), Mul(Sub(One, alpha), cur)),
                              Add(old_wt, Sub(One, alpha))),
               old_wt |-> One]
    ELSE [w |-> cur, old_wt |-> s.old_wt]

\* One step of the exponentially weighted mean (adjust=False,
\* ignore_na=False) from state s = [w, old_wt] on the value cur.
EwmStep(s, cur, alpha) ==
    IF ~IsNaN(s.w)
    THEN LET old_wt == Mul(s.old_wt, Sub(One, alpha)) IN
         IF IsNaN(cur) THEN [w |-> s.w, old_wt |-> old_wt]
         ELSE [w |-> IF FEq(s.w, cur) THEN s.w
                     ELSE Div(Add(Mul(old_wt, s.w), Mul(alpha, cur)),
                              Add(old_wt, alpha)),
               old_wt |-> One]
    ELSE [w |-> cur, old_wt |-> s.old_wt]

RECURSIVE EwmStates(_, _, _)
EwmStates(xs, alpha, n) ==
    IF n = 0 THEN <<>>
    ELSE IF n = 1 THEN <<[w |-> xs[1], old_wt |-> One]>>
    ELSE LET prev == EwmStates(xs, alpha, n - 1) IN
         Append(prev, EwmStep(prev[n - 1], xs[n], alpha))

\* Series.ewm(alpha=alpha, adjust=False).mean()
Ewm(xs, alpha) ==
    LET s == EwmStates(xs, alpha, Len(xs)) IN [i \in 1..Len(xs) |-> s[i].w]

\* ewm(span=s): alpha = 2 / (s + 1)
SpanAlpha(s) == Rat(2, s + 1)

(***************************************************************************)
(* Frames.  A row holds an integer per base column; a column the frame     *)
(* does not have reads 0 in every row and is never read by the functions.  *)
(***************************************************************************)
\* df[name] as a float Series.
Column(rows, name) == [i \in 1..Len(rows) |-> Int2Num(rows[i][name])]

RECURSIVE SortValues(_)
\* df.sort_values('trade_date').reset_index(drop=True): rows in ascending
\* trade_date order (the dates of a frame are distinct).
SortValues(rows) ==
    IF rows = <<>> THEN <<>>
    ELSE LET m == CHOOSE i \in 1..Len(rows):
                      \A j \in 1..Len(rows): rows[i].trade_date <= rows[j].trade_date
         IN  <<rows[m]>> \o SortValues(SubSeq(rows, 1, m - 1) \o SubSeq(rows, m + 1, Len(rows)))

\* A function that takes its input to be newest first and turns it round.
TurnedRound(frame) ==
    [i \in 1..Len(frame.rows) |-> frame.rows[Len(frame.rows) + 1 - i]]

\* if 'trade_date' in df.columns: df = df.sort_values('trade_date')...
Sorted(frame) ==
    IF "trade_date" \in frame.columns THEN SortValues(frame.rows) ELSE frame.rows

\* The name of a derived column: its stem and its period (0 where the name
\* has none), e.g. ma5 is <<"ma", 5>> and boll_mid is <<"boll_mid", 0>>.
Col(name) == <<name, 0>>

\* An early return placed after the sort: the rows come back reordered.
ReturnedAfterSort(fn, args, frame) ==
    [fn |-> fn, args |-> args, returned |-> "input", rows |-> Sorted(frame),
     cols |-> [c \in {} |-> <<>>]]

\* return df: the frame handed in, no column added.
Untouched(fn, args, frame) ==
    [fn |-> fn, args |-> args, returned |-> "input", rows |-> frame.rows,
     cols |-> [c \in {} |-> <<>>]]

\* The copy the function returns: the rows in the order it put them and the
\* columns it added.
Derived(fn, args, rows, cols) ==
    [fn |-> fn, args |-> args, returned |-> "copy", rows |-> rows, cols |-> cols]

\* TECHNICAL_INDICATORS_CONFIG['ma']['volume_periods']
VolumePeriods == {5, 10}

calculate_ma(frame, periods) ==
    IF frame.rows = <<>> \/ "close" \notin frame.columns
    THEN Untouched("calculate_ma", <<periods>>, frame)
    ELSE LET rows == Sorted(frame)
             close == Column(rows, "close")
             vol == Column(rows, "vol")
             keys == {<<"ma", p>>: p \in periods}
                     \cup (IF "vol" \in frame.columns
                           THEN {<<"vol_ma", p>>: p \in VolumePeriods} ELSE {})
                     \cup {Col("pct_change")}
         IN  Derived("calculate_ma", <<periods>>, rows,
                 [c \in keys |->
                     IF c[1] = "ma" THEN RollingMean(close, c[2])
                     ELSE IF c[1] = "vol_ma" THEN RollingMean(vol, c[2])
                     ELSE LET pc == PctChange(close) IN
                          [i \in 1..Len(rows) |-> Mul(pc[i], Hundred)]])

\* delta.where(delta > 0, 0)
Gain(delta) ==
    [i \in 1..Len(delta) |-> IF Greater(delta[i], Zero) THEN delta[i] ELSE Zero]

\* A loss that counts every move, up or down, by its size.
LossOfAnyMove(delta) ==
    [i \in 1..Len(delta) |->
        IF IsNaN(delta[i]) THEN Zero
        ELSE IF Less(delta[i], Zero) THEN Neg(delta[i]) ELSE delta[i]]

\* -delta.where(delta < 0, 0)
Loss(delta) ==
    [i \in 1..Len(delta) |-> Neg(IF Less(delta[i], Zero) THEN delta[i] ELSE Zero)]

calculate_rsi(frame, periods) ==
    IF frame.rows = <<>> \/ "close" \notin frame.columns
    THEN Untouched("calculate_rsi", <<periods>>, frame)
    ELSE LET rows == Sorted(frame)
             delta == Diff(Column(rows, "close"))
         IN  Derived("calculate_rsi", <<periods>>, rows,
                 [c \in {<<"rsi", p>>: p \in periods} |->
                     LET avg_gain == RollingMean(Gain(delta), c[2])
                         avg_loss == RollingMean(Loss(delta), c[2])
                     IN  [i \in 1..Len(rows) |->
                             LET rs == Div(avg_gain[i], avg_loss[i]) IN
                             Sub(Hundred, Div(Hundred, Add(One, rs)))]])

\* high_n and low_n of calculate_kdj.
HighN(rows, period) == RollingMax(Column(rows, "high"), period)
LowN(rows, period) == RollingMin(Column(rows, "low"), period)

\* rsv of calculate_kdj, after fillna(50).
Rsv(rows, period) ==
    LET close == Column(rows, "close")
        high_n == HighN(rows, period)
        low_n == LowN(rows, period)
    IN  Fillna([i \in 1..Len(rows) |->
                   Mul(Div(Sub(close[i], low_n[i]), Sub(high_n[i], low_n[i])),
                       Hundred)],
               Int2Num(50))

\* A J line with k and d in each other's place.
JLineSwapped(k, d) == Sub(Mul(Int2Num(3), d), Mul(Int2Num(2), k))

\* j = 3 * k - 2 * d
JLine(k, d) == Sub(Mul(Int2Num(3), k), Mul(Int2Num(2), d))

calculate_kdj(frame, period, k_period, d_period) ==
    IF frame.rows = <<>> \/ ~({"high", "low", "close"} \subseteq frame.columns)
    THEN Untouched("calculate_kdj", <<period, k_period, d_period>>, frame)
    ELSE LET rows == Sorted(frame)
             k == Ewm(Rsv(rows, period), Rat(1, k_period))
             d == Ewm(k, Rat(1, d_period))
         IN  Derived("calculate_kdj", <<period, k_period, d_period>>, rows,
                 [c \in {Col("k"), Col("d"), Col("j")} |->
                     IF c = Col("k") THEN k
                     ELSE IF c = Col("d") THEN d
                     ELSE [i \in 1..Len(rows) |-> JLine(k[i], d[i])]])

\* boll_mid + sign * std * std_dev, kept as the number base + sign * sqrt(sq)
\* with sq = variance * std_dev^2 (a square root is not a fraction).
Band(base, sign, variance, std_dev) ==
    [base |-> base, sign |-> sign, sq |-> Mul(variance, Mul(std_dev, std_dev))]

calculate_bollinger_bands(frame, period, std_dev) ==
    IF frame.rows = <<>> \/ "close" \notin frame.columns
    THEN Untouched("calculate_bollinger_bands", <<period, std_dev>>, frame)
    ELSE LET rows == Sorted(frame)
             close == Column(rows, "close")
             mid == RollingMean(close, period)
             var == RollingVar(close, period)
         IN  Derived("calculate_bollinger_bands", <<period, std_dev>>, rows,
                 [c \in {Col("boll_mid"), Col("boll_upper"), Col("boll_lower")} |->
                     IF c = Col("boll_mid") THEN mid
                     ELSE [i \in 1..Len(rows) |->
                              Band(mid[i], IF c = Col("boll_upper") THEN 1 ELSE -1,
                                   var[i], Int2Num(std_dev))]])

\* A histogram that is the plain difference.
HistogramUndoubled(dif, dea) == Sub(dif, dea)

\* macd = (dif - dea) * 2
Histogram(dif, dea) == Mul(Sub(dif, dea), Int2Num(2))

calculate_macd(frame, fast_period, slow_period, signal_period) ==
    IF frame.rows = <<>> \/ "close" \notin frame.columns
    THEN Untouched("calculate_macd", <<fast_period, slow_period, signal_period>>, frame)
    ELSE LET rows == Sorted(frame)
             close == Column(rows, "close")
             ema_fast == Ewm(close, SpanAlpha(fast_period))
             ema_slow == Ewm(close, SpanAlpha(slow_period))
             dif == [i \in 1..Len(rows) |-> Sub(ema_fast[i], ema_slow[i])]
             dea == Ewm(dif, SpanAlpha(signal_period))
         IN  Derived("calculate_macd", <<fast_period, slow_period, signal_period>>, rows,
                 [c \in {Col("macd_dif"), Col("macd_dea"), Col("macd_macd")} |->
                     IF c = Col("macd_dif") THEN dif
                     ELSE IF c = Col("macd_dea") THEN dea
                     ELSE [i \in 1..Len(rows) |-> Histogram(dif[i], dea[i])]])

(***************************************************************************)
(* The frames handed to the indicator functions.  Nothing validates a      *)
(* frame before an indicator function reads it (clean_dataframe only       *)
(* drops empty rows and converts types), so a bar may close outside its    *)
(* own low..high range.  Rows come oldest first or newest first.           *)
(***************************************************************************)
Closes == 1..MaxLen
Vols == {1, 2}
\* <<high, low, close>>
Bars == {<<1, 1, 1>>, <<1, 1, 2>>, <<2, 1, 1>>, <<2, 1, 2>>, <<2, 2, 2>>, <<2, 2, 1>>}
Orders == {"oldest_first", "newest_first"}

DateOf(i, n, order) == IF order = "oldest_first" THEN i ELSE n + 1 - i

Row(trade_date, trade_time, close, high, low, vol) ==
    [trade_date |-> trade_date, trade_time |-> trade_time, close |-> close,
     high |-> high, low |-> low, vol |-> vol]

\* Daily quotes: trade_date, close, vol.
QuoteFrames ==
    UNION {{[columns |-> {"trade_date", "close", "vol"},
             rows |-> [i \in 1..n |-> Row(DateOf(i, n, o), 0, c[i], 0, 0, v[i])]]:
               c \in [1..n -> Closes], v \in [1..n -> Vols], o \in Orders}:
           n \in 1..MaxLen}

\* Daily bars: trade_date, high, low, close.
BarFrames ==
    UNION {{[columns |-> {"trade_date", "high", "low", "close"},
             rows |-> [i \in 1..n |-> Row(DateOf(i, n, o), 0, b[i][3], b[i][1], b[i][2], 0)]]:
               b \in [1..n -> Bars], o \in Orders}:
           n \in 1..MaxLen}

\* Intraday closes keyed by trade_time (the name get_minute_data gives the
\* timestamp column), with no trade_date column.
TimeFrames ==
    UNION {{[columns |-> {"trade_time", "close"},
             rows |-> [i \in 1..n |-> Row(0, DateOf(i, n, o), c[i], 0, 0, 0)]]:
               c \in [1..n -> Closes], o \in Orders}:
           n \in 1..MaxLen}

\* A volume series: trade_date and vol, no price column.
VolumeFrames ==
    UNION {{[columns |-> {"trade_date", "vol"},
             rows |-> [i \in 1..n |-> Row(DateOf(i, n, o), 0, 0, 0, 0, v[i])]]:
               v \in [1..n -> Vols], o \in Orders}:
           n \in 1..MaxLen}

Frames == {EmptyDf} \cup QuoteFrames \cup BarFrames \cup TimeFrames \cup VolumeFrames

\* Window lengths shorter than, equal to and longer than any frame.
Periods == 1..(MaxLen + 1)
\* <<k_period, d_period>>; the configuration has <<3, 3>>.
Smoothings == {<<3, 3>>, <<1, 2>>}
\* <<fast_period, slow_period, signal_period>>
Spans == {<<1, 3, 1>>, <<2, 3, 2>>}
\* TECHNICAL_INDICATORS_CONFIG['bollinger_bands']['std_dev']
StdDev == 2

CalculateMa(periods) ==
    /\ out.fn = "none"
    /\ out' = calculate_ma(df, periods)
    /\ UNCHANGED <<limiterVars, callerVars, inputVars, taskVars, managerVars,
                   limiter, scopeVars, df, again>>

CalculateRsi(periods) ==
    /\ out.fn = "none"
    /\ out' = calculate_rsi(df, periods)
    /\ UNCHANGED <<limiterVars, callerVars, inputVars, taskVars, managerVars,
                   limiter, scopeVars, df, again>>

CalculateKdj(period, k_period, d_period) ==
    /\ out.fn = "none"
    /\ out' = calculate_kdj(df, period, k_period, d_period)
    /\ UNCHANGED <<limiterVars, callerVars, inputVars, taskVars, managerVars,
                   limiter, scopeVars, df, again>>

CalculateBollingerBands(period, std_dev) ==
    /\ out.fn = "none"
    /\ out' = calculate_bollinger_bands(df, period, std_dev)
    /\ UNCHANGED <<limiterVars, callerVars, inputVars, taskVars, managerVars,
                   limiter, scopeVars, df, again>>

CalculateMacd(fast_period, slow_period, signal_period) ==
    /\ out.fn = "none"
    /\ out' = calculate_macd(df, fast_period, slow_period, signal_period)
    /\ UNCHANGED <<limiterVars, callerVars, inputVars, taskVars, managerVars,
                   limiter, scopeVars, df, again>>

\* The indicator function fn called with args on frame.
Indicator(fn, args, frame) ==
    CASE fn = "calculate_ma" -> calculate_ma(frame, args[1])
      [] fn = "calculate_rsi" -> calculate_rsi(frame, args[1])
      [] fn = "calculate_kdj" -> calculate_kdj(frame, args[1], args[2], args[3])
      [] fn = "calculate_bollinger_bands" ->
             calculate_bollinger_bands(frame, args[1], args[2])
      [] fn = "calculate_macd" -> calculate_macd(frame, args[1], args[2], args[3])

\* df[name] = series: a column of that name is replaced, others are kept.
Assign(cols, new) ==
    [c \in DOMAIN cols \cup DOMAIN new |-> IF c \in DOMAIN new THEN new[c] ELSE cols[c]]

\* The indicator function is called again, with the same arguments, on the
\* frame it returned: the base columns in the order it put them, and the
\* columns it added.
Reapply ==
    /\ out.fn # "none"
    /\ again.fn = "none"
    /\ LET r == Indicator(out.fn, out.args, [columns |-> df.columns, rows |-> out.rows])
       IN  again' = [r EXCEPT !.cols = Assign(out.cols, r.cols)]
    /\ UNCHANGED <<limiterVars, callerVars, inputVars, taskVars, managerVars,
                   limiter, scopeVars, df, out>>

\* The call is suspended in asyncio.sleep, or was woken and has not read the
\* clock again: its local `now` is still the reading taken before the sleep.
Waiting(c) == cpc[c] = "sleep" \/ (cpc[c] = "acquire" /\ retries[c] >= 1)

\* time.time() advances by one unit.
Tick ==
    /\ requests' = Aged(requests)
    /\ av_requests' = Aged(av_requests)
    /\ granted' = AgedHistory(granted)
    /\ issued' = AgedHistory(issued)
    /\ ctimer' = [c \in Callers |-> Max(ctimer[c] - 1, 0)]
    /\ now' = [c \in Callers |-> IF Waiting(c) THEN Max(now[c] - 1, Oldest) ELSE now[c]]
    /\ task' = [t \in Tasks |-> [task[t] EXCEPT !.timer = Max(@ - 1, 0)]]
    /\ UNCHANGED <<cpc, appends, retries, inputVars, restVars, calls, permits, managerVars>>

(***************************************************************************)
(* Specifications.                                                         *)
(***************************************************************************)
InitLimiters ==
    /\ requests = <<>>
    /\ av_requests = <<>>
    /\ granted = <<>>
    /\ issued = <<>>
    /\ cpc = [c \in Callers |-> "idle"]
    /\ ctimer = [c \in Callers |-> 0]
    /\ now = [c \in Callers |-> Now]
    /\ appends = [c \in Callers |-> 0]
    /\ retries = [c \in Callers |-> 0]

InitTasks ==
    /\ max_retries = MaxRetries
    /\ dispatch = NoDispatch
    /\ validation = NoValidation
    /\ task = [t \in Tasks |-> Off]
    /\ calls = [t \in Tasks |-> 0]
    /\ permits = [t \in Tasks |-> 0]
    /\ result = <<>>

\* Nothing constructed, no scope entered, no indicator function called.
InitScope ==
    /\ limiter = NoLimiter
    /\ scope = [pc |-> "out", next |-> 1]
    /\ session = [f \in Range(Fetchers) |-> "none"]
    /\ scope_exc = "none"

InitRest ==
    /\ InitScope
    /\ df = EmptyDf
    /\ out = NoOutput
    /\ again = NoOutput

\* N + 1 tasks call tushare_limiter.acquire() over and over.
Init ==
    /\ InitLimiters
    /\ InitTasks
    /\ InitRest
    /\ op = "acquire"
    /\ tushare_enabled = TRUE
    /\ ts_code_valid = TRUE
    /\ news_api_key = TRUE
    /\ include = FlagsOf({})
    /\ mpc = "none"

Next ==
    \/ \E c \in Callers: Call(c)
    \/ \E c \in Callers: Acquire(c)
    \/ Tick

Spec == Init /\ [][Next]_vars

\* The event loop runs every task that is ready, and the clock advances.
FairSpec ==
    /\ Init /\ [][Next]_vars
    /\ WF_vars(Tick)
    /\ \A c \in Callers: WF_vars(Acquire(c))

\* A RateLimiter is constructed with any arguments and then used.
NextConstruct ==
    \/ \E max_requests \in 0..MaxRequests, time_window \in 0..TimeWindow:
          Construct(max_requests, time_window)
    \/ \E c \in Callers: CallOn(c)
    \/ \E c \in Callers: AcquireOn(c)
    \/ Tick

ConstructSpec == Init /\ [][NextConstruct]_vars

\* One composite call: get_stock_comprehensive_data (also through
\* get_stock_data) or get_market_overview, with any flags and configuration.
InitAggregator ==
    /\ InitLimiters
    /\ InitTasks
    /\ InitRest
    /\ op \in {"comprehensive", "overview"}
    /\ tushare_enabled \in BOOLEAN
    /\ ts_code_valid \in (IF op = "comprehensive" THEN BOOLEAN ELSE {TRUE})
    /\ news_api_key = TRUE
    /\ IF op = "comprehensive"
       THEN \E data_types \in SUBSET DataTypes: include = FlagsOf(data_types)
       ELSE \E include_news \in BOOLEAN: include = OverviewFlags(include_news)
    /\ mpc = "call"

NextAggregator ==
    \/ Submit
    \/ \E t \in AllLabels \cup Members: Run(t)
    \/ \E t \in AllLabels: FanOut(t)
    \/ \E t \in AllLabels: Collect(t)
    \/ Return
    \/ Tick

AggregatorSpec == InitAggregator /\ [][NextAggregator]_vars

\* A composite call whose sub-tasks may be cancelled from outside.
NextCancellation ==
    \/ NextAggregator
    \/ \E t \in AllLabels: CancelChild(t)

CancellationSpec == InitAggregator /\ [][NextCancellation]_vars

\* The event loop runs every task that can run, and the clock advances.
FairAggregatorSpec ==
    /\ InitAggregator /\ [][NextAggregator]_vars
    /\ WF_vars(Tick)
    /\ WF_vars(Submit)
    /\ WF_vars(Return)
    /\ \A t \in AllLabels \cup Members: WF_vars(Run(t))
    /\ \A t \in AllLabels: WF_vars(FanOut(t)) /\ WF_vars(Collect(t))

\* Fetcher methods called on their own.
InitMethods ==
    /\ InitLimiters
    /\ InitTasks
    /\ InitRest
    /\ op = "methods"
    /\ tushare_enabled \in BOOLEAN
    /\ ts_code_valid \in BOOLEAN
    /\ news_api_key \in BOOLEAN
    /\ include = FlagsOf({})
    /\ mpc = "none"

NextMethods ==
    \/ \E t \in Methods: Invoke(t)
    \/ \E t \in Methods: Run(t)
    \/ \E t \in Methods: Request(t)
    \/ Tick

MethodSpec == InitMethods /\ [][NextMethods]_vars

\* A DataManager scope whose body awaits fetcher methods.
NextScope ==
    \/ EnterScope
    \/ \E ok \in BOOLEAN: EnterFetcher(ok)
    \/ scope.pc = "body" /\ \E t \in Methods: Invoke(t)
    \/ scope.pc = "body" /\ \E t \in Methods: Run(t)
    \/ scope.pc = "body" /\ \E t \in Methods: Request(t)
    \/ scope.pc = "body" /\ Tick
    \/ LeaveBody
    \/ \E ok, closed \in BOOLEAN: ExitFetcher(ok, closed)

ScopeSpec == InitMethods /\ [][NextScope]_vars

\* async_request called with a max_retries of the caller's choice; its frame
\* (attempt, sleep, result) is kept in the record of 'external_news'.
RetryLimits == 0..(MaxRetries + 1)

InitRequest ==
    /\ InitLimiters
    /\ InitRest
    /\ max_retries \in RetryLimits
    /\ dispatch = NoDispatch
    /\ validation = NoValidation
    /\ task = [t \in Tasks |-> Off]
    /\ calls = [t \in Tasks |-> 0]
    /\ permits = [t \in Tasks |-> 0]
    /\ result = <<>>
    /\ op = "request"
    /\ tushare_enabled = TRUE
    /\ ts_code_valid = TRUE
    /\ news_api_key = TRUE
    /\ include = FlagsOf({})
    /\ mpc = "none"

NextRequest ==
    \/ CallAsyncRequest
    \/ AsyncRequest
    \/ Tick

RequestSpec == InitRequest /\ [][NextRequest]_vars

\* One call of validate_stock_code on one code and market.
InitValidate ==
    /\ InitLimiters
    /\ InitRest
    /\ max_retries = MaxRetries
    /\ dispatch = NoDispatch
    /\ \E code \in Codes, market \in Markets:
          validation = [stock_code |-> code, market |-> market, returned |-> "none"]
    /\ task = [t \in Tasks |-> Off]
    /\ calls = [t \in Tasks |-> 0]
    /\ permits = [t \in Tasks |-> 0]
    /\ result = <<>>
    /\ op = "validate"
    /\ tushare_enabled = TRUE
    /\ ts_code_valid = TRUE
    /\ news_api_key = TRUE
    /\ include = FlagsOf({})
    /\ mpc = "none"

NextValidate == Validate

ValidateSpec == InitValidate /\ [][NextValidate]_vars

\* One dispatcher call, while other tasks use tushare_limiter.
InitDispatch ==
    /\ InitLimiters
    /\ InitTasks
    /\ InitRest
    /\ op = "dispatch"
    /\ tushare_enabled = TRUE
    /\ ts_code_valid = TRUE
    /\ news_api_key = TRUE
    /\ include = FlagsOf({})
    /\ mpc = "none"

NextDispatch ==
    \/ \E fn \in Dispatchers: \E sel \in Selectors(fn): Dispatch(fn, sel)
    \/ \E c \in Callers \ {Fetcher}: Call(c)
    \/ \E c \in Callers: Acquire(c)
    \/ DispatchReturn
    \/ Tick

DispatchSpec == InitDispatch /\ [][NextDispatch]_vars

\* One call of one indicator function on one frame, then the same call on
\* the frame it returned.
InitIndicators ==
    /\ InitLimiters
    /\ InitTasks
    /\ InitScope
    /\ df \in Frames
    /\ out = NoOutput
    /\ again = NoOutput
    /\ op = "indicators"
    /\ tushare_enabled = TRUE
    /\ ts_code_valid = TRUE
    /\ news_api_key = TRUE
    /\ include = FlagsOf({})
    /\ mpc = "none"

NextIndicators ==
    \/ \E p \in Periods: CalculateMa({p})
    \/ \E p \in Periods: CalculateRsi({p})
    \/ \E p \in Periods, s \in Smoothings: CalculateKdj(p, s[1], s[2])
    \/ \E p \in Periods: CalculateBollingerBands(p, StdDev)
    \/ \E s \in Spans: CalculateMacd(s[1], s[2], s[3])
    \/ Reapply

IndicatorSpec == InitIndicators /\ [][NextIndicators]_vars

\* N + 1 tasks call tushare_limiter.acquire() over and over, followed
\* statement by statement; the clock moves while the event loop is between
\* calls.
NextStatements ==
    \/ \E c \in Callers: Enter(c)
    \/ \E c \in Callers: Wake(c)
    \/ \E c \in Callers: ReadAndPrune(c)
    \/ \E c \in Callers: Check(c)
    \/ \E c \in Callers: AppendNow(c)
    \/ (\A c \in Callers: cpc[c] \notin Mid) /\ Tick

StatementSpec == Init /\ [][NextStatements]_vars



(***************************************************************************)
(* C1.  With max_requests = N and time_window = W, under every             *)
(* interleaving of N + 1 concurrent acquire() calls, no W-wide window of   *)
(* the clock (the instants s <= t < s + W) holds more than N grants.       *)
(***************************************************************************)
GrantsIn(s) == {i \in DOMAIN granted: s <= granted[i] /\ granted[i] < s + TimeWindow}

C1_WindowBound ==
    \A s \in (Now - TimeWindow)..Now: Cardinality(GrantsIn(s)) <= MaxRequests

\* All N + 1 callers are in acquire() or were served: N grants share the
\* current window and the remaining caller sleeps.
C1_Witness ==
    /\ Cardinality(GrantsIn(Now - TimeWindow + 1)) = MaxRequests
    /\ \E c \in Callers: cpc[c] = "sleep" /\ ctimer[c] > 0

\* The labels whose sub-request the composite call submitted.
SubmittedLabels == Range(Submitted(op, include))

(***************************************************************************)
(* C2.  get_stock_comprehensive_data never raises, whatever its            *)
(* sub-requests do; when it returns, every submitted sub-request has an    *)
(* entry under its own label: None when it raised, and when it returned    *)
(* the very value it returned, which is a value fetched for that label.    *)
(***************************************************************************)
C2_OneEntryPerLabel ==
    op = "comprehensive" =>
        /\ mpc # "raised"
        /\ mpc = "returned" =>
              /\ DOMAIN result = MetaKeys(op) \cup SubmittedLabels
              /\ \A l \in SubmittedLabels:
                    /\ task[l].pc = "raised" => result[l] = None
                    /\ task[l].pc = "returned" =>
                          /\ result[l] = task[l].val
                          /\ result[l].frame \in {"rows", "dict"} => result[l].src = l

\* All four sub-requests were submitted, 'kline' raised and the others
\* returned: a four-entry result, None under 'kline' only.
C2_Witness ==
    /\ op = "comprehensive"
    /\ mpc = "returned"
    /\ SubmittedLabels = Range(ComprehensiveLabels)
    /\ task["kline"].pc = "raised" /\ result["kline"] = None
    /\ result["money_flow"] = Rows("money_flow")
    /\ result["news"] = Rows("news")
    /\ result["financial"].frame = "dict"

(***************************************************************************)
(* C3.  A label is a key of the composite result if and only if its flag   *)
(* was on (include_* of get_stock_comprehensive_data, data_types of        *)
(* get_stock_data, include_news of get_market_overview).  A sub-request    *)
(* whose flag is off is never started and neither acquires nor calls       *)
(* upstream (nor do the statement fetches when 'financial' is off); a      *)
(* failed one keeps its key, mapped to None.                               *)
(***************************************************************************)
C3_KeyIffFlag ==
    /\ \A l \in AllLabels:
          ~(l \in Range(Labels(op)) /\ include[l]) =>
              task[l].pc = "off" /\ calls[l] = 0 /\ permits[l] = 0
    /\ ~(op = "comprehensive" /\ include["financial"]) =>
          \A m \in Members: task[m].pc = "off" /\ calls[m] = 0 /\ permits[m] = 0
    /\ mpc = "returned" =>
          \A l \in AllLabels:
              /\ l \in DOMAIN result <=> (l \in Range(Labels(op)) /\ include[l])
              /\ l \in DOMAIN result /\ task[l].pc = "raised" => result[l] = None

\* 'news' is off and has no key; 'kline' is on, failed, and has a None entry.
C3_Witness ==
    /\ op = "comprehensive"
    /\ mpc = "returned"
    /\ ~include["news"] /\ "news" \notin DOMAIN result
    /\ include["kline"] /\ task["kline"].pc = "raised"
    /\ "kline" \in DOMAIN result /\ result["kline"] = None
    /\ include["money_flow"] /\ calls["money_flow"] = 1

(***************************************************************************)
(* C4.  get_stock_comprehensive_data and get_market_overview are a full    *)
(* barrier: once the call has returned (or raised), every submitted        *)
(* sub-request has returned or raised, and so has every statement fetch    *)
(* that was started; nothing is still running.                             *)
(***************************************************************************)
C4_FullBarrier ==
    mpc \in {"returned", "raised"} =>
        /\ \A l \in SubmittedLabels: task[l].pc \in {"returned", "raised"}
        /\ \A t \in AllLabels \cup Members: task[t].pc \in {"off", "returned", "raised"}

\* get_market_overview returned after its three sub-requests had made all
\* their upstream calls, the two of 'dragon_tiger' included.
C4_Witness ==
    /\ op = "overview"
    /\ mpc = "returned"
    /\ SubmittedLabels = Range(OverviewLabels)
    /\ calls["dragon_tiger"] = 2
    /\ calls["margin"] = 1 /\ calls["news"] = 1

(***************************************************************************)
(* C5.  A sub-request that raises neither cancels nor blocks its siblings: *)
(* from any moment at which a submitted sub-request has raised while the   *)
(* gather is awaited, every submitted sub-request goes on to return or to  *)
(* raise on its own account.                                               *)
(***************************************************************************)
C5_SiblingsComplete ==
    (mpc = "gather" /\ \E l \in SubmittedLabels: task[l].pc = "raised")
        ~> (\A l \in SubmittedLabels: task[l].pc \in {"returned", "raised"})

\* 'kline' has raised while 'money_flow' sleeps in acquire() and the
\* statement fetches of 'financial' are under way.
C5_Witness ==
    /\ mpc = "gather"
    /\ task["kline"].pc = "raised"
    /\ task["money_flow"].pc = "sleep" /\ task["money_flow"].timer > 0
    /\ task["financial"].pc = "gather"

\* An upstream call made for label l failed: its own, or for 'financial' one
\* of its statement fetches.
UpstreamFailed(l) ==
    \/ task[l].err = "upstream"
    \/ Kind(l) = "fanout" /\ \E m \in Members: task[m].err = "upstream"

(***************************************************************************)
(* C6, as claimed.  Whenever an upstream call made for a submitted         *)
(* sub-request failed, its label maps to None in the result, for every     *)
(* label, 'financial' included.                                            *)
(***************************************************************************)
C6_FailureMapsToNone ==
    mpc = "returned" =>
        \A l \in SubmittedLabels: UpstreamFailed(l) => result[l] = None

(***************************************************************************)
(* C6, amended.  Whenever an upstream call made for a submitted            *)
(* sub-request other than 'financial' failed, its label maps to None.      *)
(* 'financial' always maps to a dict with one entry per statement fetch,   *)
(* and the entry of a fetch whose upstream call failed is an empty frame.  *)
(***************************************************************************)
C6_FailureRecorded ==
    mpc = "returned" =>
        \A l \in SubmittedLabels:
            IF Kind(l) = "fanout"
            THEN /\ result[l].frame = "dict"
                 /\ DOMAIN result[l].parts = Members
                 /\ \A m \in Members:
                       task[m].err = "upstream" => result[l].parts[m] = EmptyFrame
            ELSE UpstreamFailed(l) => result[l] = None

\* The upstream call of 'money_flow' failed and so did one of a statement
\* fetch, while another statement fetch got rows.
C6_Witness ==
    /\ mpc = "returned"
    /\ {"money_flow", "financial"} \subseteq SubmittedLabels
    /\ task["money_flow"].err = "upstream" /\ result["money_flow"] = None
    /\ \E m, n \in Members:
          /\ task[m].err = "upstream"
          /\ result["financial"].parts[m] = EmptyFrame
          /\ result["financial"].parts[n] = Rows(n)

\* The adapter behind label l, or behind one of its statement fetches, raised
\* its 'not enabled' error.
ConfigFailed(l) ==
    \/ task[l].err = "config"
    \/ Kind(l) = "fanout" /\ \E m \in Members: task[m].err = "config"

(***************************************************************************)
(* C7, as claimed.  A configuration failure (tushare is not enabled, the   *)
(* adapter raises) propagates to the caller of the composite request: the  *)
(* call never returns a result after one.                                  *)
(***************************************************************************)
C7_ConfigFailurePropagates ==
    mpc = "returned" => \A l \in SubmittedLabels: ~ConfigFailed(l)

(***************************************************************************)
(* C7, amended.  A configuration failure is raised by the adapter before   *)
(* any acquire() or upstream call and is contained like any other failure  *)
(* of a sub-request: the composite call never raises, the label maps to    *)
(* None, and 'financial' maps to a dict of empty frames.                   *)
(***************************************************************************)
C7_ConfigFailureContained ==
    /\ mpc # "raised"
    /\ \A t \in AllLabels \cup Members:
          task[t].err = "config" => calls[t] = 0 /\ permits[t] = 0
    /\ mpc = "returned" =>
          \A l \in SubmittedLabels:
              /\ task[l].err = "config" => result[l] = None
              /\ Kind(l) = "fanout" /\ ConfigFailed(l) =>
                    result[l] = Dict(l, [m \in Members |-> EmptyFrame])

\* tushare is not enabled: the call returned, None under 'kline' and a dict
\* of empty frames under 'financial', and nothing was asked of upstream.
C7_Witness ==
    /\ ~tushare_enabled
    /\ op = "comprehensive"
    /\ mpc = "returned"
    /\ {"kline", "financial"} \subseteq SubmittedLabels
    /\ task["kline"].err = "config" /\ result["kline"] = None
    /\ result["financial"] = Dict("financial", [m \in Members |-> EmptyFrame])
    /\ issued = <<>>

IssuedIn(s) == {i \in DOMAIN issued: s <= issued[i] /\ issued[i] < s + TimeWindow}

C9_SharedLedgerBound ==
    /\ \A s \in (Now - TimeWindow)..Now: Cardinality(IssuedIn(s)) <= MaxRequests
    /\ av_requests = <<>>

\* The current window is full with calls of a sub-request and of a statement
\* fetch, and another statement fetch sleeps in acquire().
C9_Witness ==
    /\ Cardinality(IssuedIn(Now - TimeWindow + 1)) = MaxRequests
    /\ \E l \in SubmittedLabels: calls[l] > 0
    /\ \E m, n \in Members:
          /\ calls[m] > 0
          /\ task[n].pc = "sleep" /\ task[n].timer > 0

(***************************************************************************)
(* C10.  Under fairness and an advancing clock every acquire() call        *)
(* eventually returns, even when other callers keep calling acquire().     *)
(***************************************************************************)
C10_NoStarvation ==
    \A c \in Callers: (cpc[c] # "idle") ~> (cpc[c] = "idle")

(***************************************************************************)
(* C11.  A RateLimiter with max_requests = 0 or time_window = 0 is         *)
(* rejected at construction: no limiter with such a configuration exists.  *)
(***************************************************************************)
C11_ZeroRejected ==
    limiter.state = "constructed" =>
        limiter.max_requests > 0 /\ limiter.time_window > 0

C13_SessionsClosed ==
    scope.pc = "left" => \A f \in Range(Fetchers): session[f] # "open"

(***************************************************************************)
(* C14.  A granted permit is never given back: as long as a grant is       *)
(* younger than the window its timestamp is in the ledger, whatever the    *)
(* upstream call that followed it did (rows, no rows, an exception); it    *)
(* leaves the ledger only once it has aged out of the window.              *)
(***************************************************************************)
C14_GrantsStayInLedger ==
    SelectSeq(granted, LAMBDA g: Now - g < TimeWindow) = Prune(requests, TimeWindow)

\* One sub-request's upstream call failed and another's returned no rows;
\* both grants are still in the ledger, inside the window.
C14_Witness ==
    /\ \E t, u \in AllLabels \cup Members:
          /\ task[t].err = "upstream" /\ permits[t] = 1
          /\ task[u].pc = "returned" /\ task[u].val = EmptyFrame /\ permits[u] = 1
    /\ Len(Prune(requests, TimeWindow)) = 2
    /\ \E w \in AllLabels \cup Members: task[w].pc = "sleep"

(***************************************************************************)
(* Indicator claims.  A computed output is the copy an indicator function  *)
(* returned; its row i is row i of the frame in trade_date order.          *)
(***************************************************************************)
Computed(fn) == out.fn = fn /\ out.returned = "copy"
RowsOut == 1..Len(out.rows)
ConstantClose == \A i, j \in RowsOut: out.rows[i].close = out.rows[j].close
RisingClose == \A i \in RowsOut: i > 1 => out.rows[i - 1].close < out.rows[i].close

\* base + sign * sqrt(sq) == x as floats.
BandEq(b, x) ==
    /\ ~IsNaN(b.base) /\ ~IsNaN(b.sq) /\ ~IsNaN(x)
    /\ b.sq = Zero /\ b.base = x

(***************************************************************************)
(* C15.  calculate_bollinger_bands on a constant close series gives        *)
(* boll_upper == boll_lower == boll_mid on every row, the first row (a     *)
(* window of one observation) included.                                    *)
(***************************************************************************)
C15_ConstantBandsCollapse ==
    Computed("calculate_bollinger_bands") /\ ConstantClose =>
        \A i \in RowsOut:
            /\ BandEq(out.cols[Col("boll_upper")][i], out.cols[Col("boll_mid")][i])
            /\ BandEq(out.cols[Col("boll_lower")][i], out.cols[Col("boll_mid")][i])

(***************************************************************************)
(* C16.  calculate_rsi gives a number, never NaN, on every row of every    *)
(* non-empty close series and for every period: on the first row, on flat  *)
(* windows and on rising windows too.                                      *)
(***************************************************************************)
C16_RsiDefined ==
    Computed("calculate_rsi") =>
        \A c \in DOMAIN out.cols: \A i \in RowsOut: ~IsNaN(out.cols[c][i])

RECURSIVE IntSum(_, _, _)
\* rows[1][name] + ... + rows[i][name]
IntSum(rows, name, i) == IF i = 0 THEN 0 ELSE IntSum(rows, name, i - 1) + rows[i][name]

(***************************************************************************)
(* C17.  For every window p and every series shorter than p, the rolling   *)
(* mean calculate_ma gives at row i (of close, and of vol) is the mean of  *)
(* rows 0..i: the last row is the mean of the whole series and no row is   *)
(* NaN.                                                                    *)
(***************************************************************************)
C17_ShortSeriesMean ==
    Computed("calculate_ma") =>
        \A c \in DOMAIN out.cols:
            c[1] \in {"ma", "vol_ma"} /\ Len(out.rows) < c[2] =>
                \A i \in RowsOut:
                    out.cols[c][i] =
                        Rat(IntSum(out.rows, IF c[1] = "ma" THEN "close" ELSE "vol", i), i)

\* A frame of several rows with moving closes and volumes, shorter than the
\* close window and than the volume windows.
C17_Witness ==
    /\ Computed("calculate_ma")
    /\ Len(out.rows) = MaxLen
    /\ \E p \in Periods: <<"ma", p>> \in DOMAIN out.cols /\ Len(out.rows) < p
    /\ \E q \in VolumePeriods: <<"vol_ma", q>> \in DOMAIN out.cols /\ Len(out.rows) < q
    /\ out.rows[1].close # out.rows[2].close
    /\ out.rows[1].vol # out.rows[2].vol

(***************************************************************************)
(* C18.  In calculate_kdj, on every row where the rolling high equals the  *)
(* rolling low, rsv is 50 and neither an infinity nor NaN reaches k, d     *)
(* or j.                                                                   *)
(***************************************************************************)
C18_FlatWindowFallback ==
    Computed("calculate_kdj") =>
        \A i \in RowsOut:
            FEq(HighN(out.rows, out.args[1])[i], LowN(out.rows, out.args[1])[i]) =>
                /\ Rsv(out.rows, out.args[1])[i] = Int2Num(50)
                /\ IsFinite(out.cols[Col("k")][i])
                /\ IsFinite(out.cols[Col("d")][i])
                /\ IsFinite(out.cols[Col("j")][i])

(***************************************************************************)
(* C19.  On a strictly increasing close series calculate_rsi gives exactly *)
(* 100, for every period, on every row after the first.                    *)
(***************************************************************************)
C19_RisingGivesHundred ==
    Computed("calculate_rsi") /\ RisingClose =>
        \A c \in DOMAIN out.cols: \A i \in RowsOut: i > 1 => out.cols[c][i] = Hundred

\* A rising series longer than the window, handed in newest first.
C19_Witness ==
    /\ Computed("calculate_rsi") /\ RisingClose
    /\ Len(out.rows) = MaxLen
    /\ df.rows[1].trade_date > df.rows[2].trade_date
    /\ \E p \in Periods: p < MaxLen /\ <<"rsi", p>> \in DOMAIN out.cols

(***************************************************************************)
(* C20.  No lookahead: for each of the five indicator functions and every  *)
(* row t, the derived values at row t on the full series are the values    *)
(* at row t that the same call gives on rows 0..t alone.                   *)
(***************************************************************************)
C20_NoLookahead ==
    out.returned = "copy" =>
        \A t \in RowsOut:
            LET prefix == [columns |-> df.columns, rows |-> SubSeq(out.rows, 1, t)]
                alone == Indicator(out.fn, out.args, prefix)
            IN  /\ DOMAIN alone.cols = DOMAIN out.cols
                /\ \A c \in DOMAIN out.cols: alone.cols[c][t] = out.cols[c][t]

\* A full-length frame whose later rows move away from the earlier ones,
\* under a window that the frame fills.
C20_Witness ==
    /\ Computed("calculate_kdj")
    /\ Len(out.rows) = MaxLen
    /\ out.args[1] = 2
    /\ out.rows[1].high # out.rows[MaxLen].high
    /\ out.rows[1].close # out.rows[MaxLen].close
    /\ df.rows[1].trade_date > df.rows[2].trade_date
    /\ \A i \in RowsOut: IsFinite(out.cols[Col("j")][i])

\* The timestamp of a row: its trade_date, or its trade_time in a frame
\* that has no trade_date column.
Timestamp(frame, row) ==
    IF "trade_date" \in frame.columns THEN row.trade_date ELSE row.trade_time

\* The frame with its rows in ascending timestamp order (timestamps of a
\* frame are 1..n, each once).
Ascending(frame) ==
    [frame EXCEPT !.rows =
        [i \in 1..Len(frame.rows) |->
            CHOOSE r \in Range(frame.rows): Timestamp(frame, r) = i]]

(***************************************************************************)
(* C21.  Every indicator function processes the series in ascending        *)
(* timestamp order whatever the order of the input: on any permutation of  *)
(* the rows its output (rows and derived columns) is its output on the     *)
(* ascending series, also when the series has no trade_date column.        *)
(***************************************************************************)
C21_OrderIndependent ==
    out.returned = "copy" => out = Indicator(out.fn, out.args, Ascending(df))

(***************************************************************************)
(* C22.  Idempotence: an indicator function applied to its own output     *)
(* gives derived columns identical to those of the first application, on   *)
(* the same rows; nothing carries over from one call to the next.          *)
(***************************************************************************)
C22_Idempotent ==
    again.fn # "none" =>
        /\ again.returned = out.returned
        /\ again.rows = out.rows
        /\ again.cols = out.cols

\* calculate_kdj run twice on bars handed in newest first, the closes and
\* the highs moving.
C22_Witness ==
    /\ again.fn = "calculate_kdj" /\ again.returned = "copy"
    /\ Len(df.rows) = MaxLen
    /\ df.rows[1].trade_date > df.rows[2].trade_date
    /\ df.rows[1].close # df.rows[MaxLen].close
    /\ df.rows[1].high # df.rows[2].high
    /\ DOMAIN again.cols = {Col("k"), Col("d"), Col("j")}

\* The base columns an indicator function needs.
Required(fn) == IF fn = "calculate_kdj" THEN {"high", "low", "close"} ELSE {"close"}

(***************************************************************************)
(* C23.  Given an empty series, or a series without a base column it       *)
(* needs (close; any of high, low, close for calculate_kdj), an indicator  *)
(* function does not raise and returns the series it was given, unchanged  *)
(* and with no derived column.                                             *)
(***************************************************************************)
C23_DegenerateInputUntouched ==
    out.fn # "none" /\ (df.rows = <<>> \/ ~(Required(out.fn) \subseteq df.columns)) =>
        /\ out.returned = "input"
        /\ out.rows = df.rows
        /\ DOMAIN out.cols = {}

\* calculate_kdj on quotes that have a close but neither high nor low,
\* handed in newest first.
C23_Witness ==
    /\ out.fn = "calculate_kdj"
    /\ "close" \in df.columns /\ "high" \notin df.columns
    /\ Len(df.rows) = MaxLen
    /\ df.rows[1].trade_date > df.rows[2].trade_date
    /\ out.returned = "input"

\* Every bar closes within its own range.
ValidBars == \A i \in RowsOut: out.rows[i].low <= out.rows[i].close
                               /\ out.rows[i].close <= out.rows[i].high

\* z == a * x + b * y on finite floats, by cross-multiplication.
Combines(z, a, x, b, y) ==
    /\ IsFinite(z) /\ IsFinite(x) /\ IsFinite(y)
    /\ z.n * x.d * y.d = z.d * (a * x.n * y.d + b * y.n * x.d)

(***************************************************************************)
(* C24.  For every valid input series and every row, the output of         *)
(* calculate_kdj satisfies j = 3k - 2d exactly.                            *)
(***************************************************************************)
C24_JIdentity ==
    Computed("calculate_kdj") /\ ValidBars =>
        \A i \in RowsOut:
            Combines(out.cols[Col("j")][i], 3, out.cols[Col("k")][i],
                     -2, out.cols[Col("d")][i])

\* Valid bars over several rows on which k, d and j differ from each other.
C24_Witness ==
    /\ Computed("calculate_kdj") /\ ValidBars
    /\ Len(out.rows) = MaxLen
    /\ out.args = <<2, 3, 3>>
    /\ out.cols[Col("k")][MaxLen] # out.cols[Col("d")][MaxLen]
    /\ out.cols[Col("j")][MaxLen] # out.cols[Col("k")][MaxLen]
    /\ out.cols[Col("j")][MaxLen].n < 0

(***************************************************************************)
(* C25.  For every row, the output of calculate_macd satisfies             *)
(* macd_macd = (macd_dif - macd_dea) * 2 exactly.                          *)
(***************************************************************************)
C25_HistogramIdentity ==
    Computed("calculate_macd") =>
        \A i \in RowsOut:
            Combines(out.cols[Col("macd_macd")][i], 2, out.cols[Col("macd_dif")][i],
                     -2, out.cols[Col("macd_dea")][i])

\* Closes that move, so that dif, dea and the histogram are not zero.
C25_Witness ==
    /\ Computed("calculate_macd")
    /\ Len(out.rows) = MaxLen
    /\ out.cols[Col("macd_macd")][MaxLen].n # 0
    /\ out.cols[Col("macd_dea")][MaxLen].n # 0
    /\ out.cols[Col("macd_dif")][MaxLen] # out.cols[Col("macd_dea")][MaxLen]

(***************************************************************************)
(* C26.  The prune, the capacity check and the append of one acquire()     *)
(* are atomic with respect to every other acquire(): while a call is       *)
(* between its prune and its append no other call reads or changes the     *)
(* ledger, and the timestamp the call appends is the clock reading under   *)
(* which its own capacity check passed, never one taken before a sleep.    *)
(***************************************************************************)
C26_AcquireAtomic ==
    [][\A c \in Callers: cpc[c] \in Mid =>
          /\ \A o \in Callers \ {c}: cpc[o] \notin Mid /\ cpc'[o] \notin Mid
          /\ cpc'[c] = cpc[c] => requests' = requests
          /\ now[c] = Now
          /\ cpc'[c] = "returned" =>
                /\ Len(requests') = Len(requests) + 1
                /\ requests'[Len(requests')] = Now]_vars

\* One call is about to append while a woken call and a new call wait for
\* the event loop.
C26_Witness ==
    \E c, o, e \in Callers:
        /\ cpc[c] = "append"
        /\ cpc[o] = "acquire" /\ retries[o] >= 1
        /\ cpc[e] = "acquire" /\ retries[e] = 0
        /\ requests # <<>>

(***************************************************************************)
(* C27.  After the prune of acquire() at clock reading now the ledger      *)
(* holds exactly the timestamps recorded before with t >= now -            *)
(* time_window: only timestamps strictly older than that are removed, and  *)
(* a timestamp exactly time_window old still counts against capacity.      *)
(***************************************************************************)
C27_PruneKeepsBoundary ==
    \A c \in Callers: cpc[c] = "pruned" =>
        requests = SelectSeq(granted, LAMBDA t: t >= Now - TimeWindow)

\* C27 as the code has it: after the prune the ledger holds exactly the
\* timestamps recorded before with now - t < time_window, that is
\* t > now - time_window; a timestamp exactly time_window old is removed.
C27_PruneDropsBoundary ==
    \A c \in Callers: cpc[c] = "pruned" =>
        requests = SelectSeq(granted, LAMBDA t: t > Now - TimeWindow)

\* A prune has just removed a timestamp exactly time_window old and kept a
\* younger one.
C27_Witness ==
    /\ \E c \in Callers: cpc[c] = "pruned" /\ retries[c] >= 1
    /\ \E i \in DOMAIN granted: granted[i] = Now - TimeWindow
    /\ requests # <<>>
    /\ \A i \in DOMAIN requests: requests[i] > Now - TimeWindow

(***************************************************************************)
(* C28.  A call of acquire() that finds the ledger at capacity records     *)
(* nothing before it suspends, suspends for exactly time_window - (now -   *)
(* oldest recorded timestamp), and then retries from the top with a fresh  *)
(* clock reading and a fresh prune; a call that returns has appended       *)
(* exactly one timestamp in all, however often it retried.                 *)
(***************************************************************************)
C28_SleepThenRetry ==
    \A c \in Callers:
        /\ cpc[c] = "sleep" =>
              /\ appends[c] = 0
              /\ ctimer[c] > 0 =>
                    /\ requests # <<>>
                    /\ ctimer[c] = TimeWindow - (Now - requests[1])
        /\ cpc[c] \in Mid =>
              /\ appends[c] = 0
              /\ now[c] = Now
              /\ \A i \in DOMAIN requests: Now - requests[i] < TimeWindow
        /\ cpc[c] = "returned" => appends[c] = 1

\* A call has returned after sleeping twice, with one timestamp appended.
C28_Witness ==
    \E c \in Callers:
        /\ cpc[c] = "returned"
        /\ retries[c] >= 2
        /\ appends[c] = 1
        /\ requests # <<>> /\ requests[Len(requests)] = Now

(***************************************************************************)
(* C29.  When fewer than max_requests timestamps remain after the prune,   *)
(* acquire() appends exactly one timestamp, equal to now, and returns      *)
(* without suspending; the unexpired timestamps already in the ledger      *)
(* stay as they are, in their order.                                       *)
(***************************************************************************)
C29_GrantWhenRoom ==
    [][\A c \in Callers:
          /\ cpc[c] = "pruned" /\ cpc'[c] # "pruned" /\ Len(requests) < MaxRequests =>
                /\ cpc'[c] = "append"
                /\ requests' = requests
          /\ cpc[c] = "append" /\ cpc'[c] # "append" =>
                /\ Len(requests) < MaxRequests
                /\ cpc'[c] = "returned"
                /\ requests' = Append(requests, Now)
                /\ appends'[c] = appends[c] + 1]_vars

\* A call has returned without having slept; its timestamp follows an older,
\* unexpired one.
C29_Witness ==
    \E c \in Callers:
        /\ cpc[c] = "returned" /\ retries[c] = 0 /\ appends[c] = 1
        /\ Len(requests) >= 2
        /\ requests[1] < Now /\ Now - requests[1] < TimeWindow
        /\ requests[Len(requests)] = Now

(***************************************************************************)
(* C30.  The aggregator starts each submitted sub-request exactly once     *)
(* per composite call and never invokes a failed sub-request again: a      *)
(* sub-request is started only by the submission of the composite call,    *)
(* and once it has returned or raised it makes no further step, upstream   *)
(* call or permit request.                                                 *)
(***************************************************************************)
C30_StartedOnce ==
    [][\A t \in AllLabels \cup Members:
          /\ task[t].pc = "off" /\ task'[t].pc # "off" =>
                /\ task'[t].pc = "ready"
                /\ t \in AllLabels => mpc = "call" /\ mpc' = "gather"
          /\ task[t].pc # "off" =>
                /\ task'[t].pc # "off"
                /\ task'[t].pc = "ready" => task[t].pc = "ready"
          /\ Settled(task[t]) =>
                /\ task'[t] = task[t]
                /\ calls'[t] = calls[t]
                /\ permits'[t] = permits[t]]_vars

\* The composite call has returned; one sub-request failed upstream after a
\* single call and was left at that, another delivered.
C30_Witness ==
    /\ mpc = "returned"
    /\ \E t, u \in SubmittedLabels:
          /\ task[t].pc = "raised" /\ task[t].err = "upstream" /\ calls[t] = 1
          /\ task[u].pc = "returned" /\ calls[u] >= 1

(***************************************************************************)
(* C31.  Under every interleaving of acquire() calls the ledger holds at   *)
(* most max_requests timestamps and is in non-decreasing order; at         *)
(* capacity after the prune the computed sleep_time is strictly positive,  *)
(* so no call reaches the append while max_requests unexpired timestamps   *)
(* are in the ledger.                                                      *)
(***************************************************************************)
C31_LedgerInvariant ==
    /\ Len(requests) <= MaxRequests
    /\ \A i, j \in DOMAIN requests: i < j => requests[i] <= requests[j]
    /\ \A c \in Callers:
          /\ cpc[c] = "pruned" /\ AtCapacity(requests, MaxRequests) =>
                SleepTimeAt(requests, now[c], TimeWindow) > 0
          /\ cpc[c] = "append" => Len(requests) < MaxRequests

\* A call has just pruned and finds the ledger full, with timestamps of
\* different ages in it.
C31_Witness ==
    /\ Len(requests) = MaxRequests
    /\ requests[1] < requests[Len(requests)]
    /\ \E c \in Callers: cpc[c] = "pruned" /\ retries[c] >= 1

(***************************************************************************)
(* C32.  A waiter that is alone (no other call is granted between its      *)
(* clock reading and its retry) is granted on its first retry: its sleep   *)
(* ends exactly when the oldest timestamp is time_window old, the retry's  *)
(* prune removes that timestamp, and the retry finds the ledger below      *)
(* capacity and appends.                                                   *)
(***************************************************************************)
Alone(c) == \A i \in DOMAIN granted: granted[i] <= now[c]

C32_LoneWaiterGranted ==
    [][\A c \in Callers:
          /\ cpc[c] = "sleep" /\ retries[c] = 0 /\ Alone(c) =>
                /\ ctimer[c] > 0 =>
                      /\ Len(requests) = MaxRequests
                      /\ ctimer[c] = TimeWindow - (Now - requests[1])
                /\ ctimer[c] = 0 => Len(Prune(requests, TimeWindow)) < MaxRequests
          /\ cpc[c] = "acquire" /\ cpc'[c] = "pruned" /\ retries[c] = 1 /\ Alone(c) =>
                Len(requests') < MaxRequests
          /\ cpc[c] = "pruned" /\ cpc'[c] # "pruned" /\ Len(requests) < MaxRequests =>
                cpc'[c] = "append"]_vars

\* A call slept once with no other call granted meanwhile and was granted
\* exactly time_window after the oldest grant.
C32_Witness ==
    \E c \in Callers:
        /\ cpc[c] = "returned" /\ retries[c] = 1 /\ appends[c] = 1
        /\ Len(granted) = MaxRequests + 1
        /\ granted[1] = Now - TimeWindow
        /\ granted[Len(granted)] = Now
        /\ \A i \in 1..MaxRequests: granted[i] < Now

(***************************************************************************)
(* C33.  get_all_financial_data starts its statement fetches together,     *)
(* waits for all of them and always returns a dict with exactly one key    *)
(* per fetch: the empty frame for a fetch that raised, its own value for a *)
(* fetch that returned.  It never raises, even when every fetch failed.    *)
(***************************************************************************)
C33_FanOutContained ==
    \A t \in AllLabels:
        Kind(t) = "fanout" =>
            /\ task[t].pc # "raised"
            /\ task[t].pc \in {"off", "ready"} => \A m \in Members: task[m].pc = "off"
            /\ task[t].pc = "gather" => \A m \in Members: task[m].pc # "off"
            /\ task[t].pc = "returned" =>
                  /\ \A m \in Members: task[m].pc \in {"returned", "raised"}
                  /\ task[t].val.frame = "dict"
                  /\ DOMAIN task[t].val.parts = Members
                  /\ \A m \in Members:
                        /\ task[m].pc = "raised" =>
                              /\ task[t].val.parts[m] = EmptyFrame
                              /\ task[t].val.parts[m] # None
                        /\ task[m].pc = "returned" =>
                              task[t].val.parts[m] = task[m].val

\* Every statement fetch failed upstream and get_all_financial_data returned
\* its dict of empty frames.
C33_Witness ==
    /\ task["financial"].pc = "returned"
    /\ \A m \in Members: task[m].pc = "raised" /\ task[m].err = "upstream" /\ calls[m] = 1
    /\ task["financial"].val = Dict("financial", [m \in Members |-> EmptyFrame])

(***************************************************************************)
(* C34.  For every max_retries >= 0 async_request makes at most            *)
(* max_retries + 1 attempts; it returns only with the payload of an        *)
(* attempt that answered 200 and makes no attempt after it; it raises only *)
(* after max_retries + 1 failed attempts; it sleeps 2 ** attempt only      *)
(* between two attempts and never after the last failed one.               *)
(***************************************************************************)
C34_BoundedAttempts ==
    LET r == task["external_news"]
        n == calls["external_news"]
    IN  /\ n <= max_retries + 1
        /\ r.pc = "ready" => n = 0
        /\ r.pc = "sleep" =>
              /\ n = r.attempt /\ n <= max_retries
              /\ r.timer <= Backoff(n - 1)
              /\ r.err \in Responses \ {"200"}
        /\ r.pc = "returned" => r.val = Payload /\ r.timer = 0 /\ n = r.attempt + 1
        /\ r.pc = "raised" =>
              /\ n = max_retries + 1
              /\ r.timer = 0
              /\ r.val = None
              /\ r.err \in Responses \ {"200"}

\* async_request raised after max_retries + 1 attempts, the last of which
\* timed out, with retries allowed.
C34_Witness ==
    /\ op = "request"
    /\ max_retries >= 1
    /\ task["external_news"].pc = "raised"
    /\ task["external_news"].err = "timeout"
    /\ calls["external_news"] = max_retries + 1

(***************************************************************************)
(* C35.  In the composite result a label maps to a value other than None   *)
(* only if its sub-request returned normally: every other completion the   *)
(* gather collects, a cancelled sub-task included, is recorded as None.    *)
(***************************************************************************)
C35_OnlyReturnsStored ==
    mpc = "returned" =>
        \A l \in SubmittedLabels: result[l] # None => task[l].pc = "returned"

(***************************************************************************)
(* C36.  In get_market_overview 'dragon_tiger' and 'margin' always have an *)
(* entry.  The 'dragon_tiger' sub-request fetches the list and then the    *)
(* institutions: the second fetch is issued only after the first           *)
(* delivered, never after it failed, and the label maps to a value other   *)
(* than None only if both fetches succeeded (a delivered list is dropped   *)
(* when the institutions fetch fails).                                     *)
(***************************************************************************)
C36_DragonTigerSequential ==
    op = "overview" =>
        LET r == task["dragon_tiger"]
            n == calls["dragon_tiger"]
        IN  /\ n <= 2
            /\ n = 2 => r.stage = 2 /\ r.first \in {Rows("dragon_tiger"), EmptyFrame}
            /\ r.stage = 1 => n <= 1 /\ r.first = None
            /\ r.pc = "raised" /\ r.stage = 1 => r.val = None
            /\ r.pc = "returned" =>
                  /\ n = 2
                  /\ r.val.frame = "dict"
                  /\ DOMAIN r.val.parts = {"list", "institutions"}
                  /\ r.val.parts["list"] = r.first
            /\ mpc = "returned" =>
                  /\ {"dragon_tiger", "margin"} \subseteq DOMAIN result
                  /\ result["dragon_tiger"] # None =>
                        r.pc = "returned" /\ n = 2 /\ result["dragon_tiger"] = r.val
                  /\ r.pc = "raised" => result["dragon_tiger"] = None

\* The list was delivered, the institutions fetch failed, and the overview
\* holds None under 'dragon_tiger' next to the data of 'margin'.
C36_Witness ==
    /\ op = "overview"
    /\ mpc = "returned"
    /\ task["dragon_tiger"].pc = "raised"
    /\ task["dragon_tiger"].stage = 2
    /\ task["dragon_tiger"].first = Rows("dragon_tiger")
    /\ calls["dragon_tiger"] = 2
    /\ result["dragon_tiger"] = None
    /\ result["margin"] = Rows("margin")

(***************************************************************************)
(* C37.  A dispatcher called with a selector it does not support raises    *)
(* without invoking a fetcher method: no permit is consumed and the ledger *)
(* of the limiter is as it was.  Called with a supported selector it       *)
(* invokes exactly one fetcher method, the one of that selector.           *)
(***************************************************************************)
Supported(fn) ==
    CASE fn = "get_kline_data" -> {"daily", "weekly", "monthly"} \cup Minutes
      [] fn = "get_financial_statements" -> {"income", "balance", "cashflow", "all"}
      [] fn = "get_margin_data" -> {"detail", "target"}

C37_DispatchersRejectUnknown ==
    /\ [](dispatch.pc # "none" =>
            IF dispatch.selector \in Supported(dispatch.fn)
            THEN /\ Len(dispatch.invoked) = 1
                 /\ dispatch.invoked[1] # "raise"
            ELSE /\ dispatch.pc = "raised"
                 /\ dispatch.invoked = <<>>
                 /\ cpc[Fetcher] = "idle")
    /\ [][dispatch.pc = "none" /\ dispatch'.pc # "none"
             /\ dispatch'.selector \notin Supported(dispatch'.fn) =>
                requests' = requests /\ granted' = granted /\ cpc' = cpc]_vars

\* An unsupported frequency was rejected while the ledger held a grant of
\* another task, which is still there.
C37_Witness ==
    /\ dispatch.fn = "get_kline_data"
    /\ dispatch.selector = "yearly"
    /\ dispatch.pc = "raised"
    /\ dispatch.invoked = <<>>
    /\ requests = <<Now>>

(***************************************************************************)
(* C38.  validate_stock_code returns a boolean for every string and market *)
(* and never raises; a code with more than one '.' is reported invalid     *)
(* (False) for the markets 'cn' and 'hk'.                                  *)
(***************************************************************************)
Dots(str) == Cardinality({i \in DOMAIN str: str[i] = "."})

C38_AlwaysBoolean ==
    validation.returned # "none" =>
        /\ validation.returned \in {"True", "False"}
        /\ validation.market \in {"cn", "hk"} /\ Dots(validation.stock_code) > 1 =>
              validation.returned = "False"

(***************************************************************************)
(* C39.  In calculate_kdj k and d follow the recursive exponential average *)
(* seeded with the first value: k[0] = rsv[0] and                          *)
(* k[t] = alpha * rsv[t] + (1 - alpha) * k[t-1] with alpha = 1 / k_period, *)
(* d[0] = k[0] and d[t] = beta * k[t] + (1 - beta) * d[t-1] with           *)
(* beta = 1 / d_period, for every row t >= 1 of a series of valid bars.    *)
(***************************************************************************)
\* z == (1/p) * x + (1 - 1/p) * y on finite floats, by cross-multiplication.
Smooths(z, x, y, p) ==
    /\ IsFinite(z) /\ IsFinite(x) /\ IsFinite(y)
    /\ p * z.n * x.d * y.d = z.d * (x.n * y.d + (p - 1) * y.n * x.d)

====
